---- MODULE Spec2Model ----
(***************************************************************************)
(* One city agent of the cost-of-living analyser: the agentTick control    *)
(* loop (Perceive -> Reason -> Reflect), its memory, the strategy selector *)
(* and the on-disk cache entry of the agent's city.                        *)
(*                                                                         *)
(* Numbers.  Confidences are kept exactly, in integers:                    *)
(*   - a per-category confidence is held in tenths (99.0 is 990), since    *)
(*     the strategy modifiers have one decimal;                            *)
(*   - the agent's average confidence is held in units of 1/Scale, where   *)
(*     Scale = 10 * 60 and 60 is divisible by every possible number of     *)
(*     processed categories (1..6), so the average is an exact integer;    *)
(*   - completeness is held in units of 1/(100 * NumCategories), so that   *)
(*     successful/NumCategories is the integer successful * 100.           *)
(* The two logs (errors, attempted_strategies) are kept as their length    *)
(* and their last entry.                                                   *)
(***************************************************************************)
EXTENDS Integers, Sequences, FiniteSets, TLC

VARIABLES
    pc,                 \* position of agentTick / perceive / reason
    state,              \* context.state
    memory,             \* context.memory
    errors,             \* context.errors: [n, last]
    perception,         \* context.perception
    reasoning,          \* context.reasoning
    cache,              \* the cache file of this city
    ci,                 \* index of the category being processed
    strategy,           \* perceive: the selected strategy of this category
    query,              \* perceive: the query in flight
    categorySearchResults, \* perceive: bundles gathered so far
    successfulCategories, \* perceive: categories gathered so far
    costCategories,     \* reason: results gathered so far
    totalConfidence,    \* reason: sum of the results' confidences, in tenths
    categoriesProcessed,\* reason: number of results
    evaluation,         \* agentTick: what reflect returned last
    sent,               \* history: queries sent in the current Perception pass
    passes,             \* history: loop passes begun
    everRetrievalOk,    \* history: some retrieval call returned
    everRetrievalFail,  \* history: some retrieval call threw
    faults,             \* history: collaborator calls that failed so far
    main                \* the orchestrator: its cities, their tasks, what it collected

vars == <<pc, state, memory, errors, perception, reasoning, cache, ci, strategy,
          query, categorySearchResults, successfulCategories, costCategories,
          totalConfidence, categoriesProcessed, evaluation, sent, passes,
          everRetrievalOk, everRetrievalFail, faults, main>>

-----------------------------------------------------------------------------
(* Configuration and catalog *)

\* CONFIG.costCategories, in configuration order
costCategoriesConfig ==
    <<"rent_1br", "groceries", "transportation", "utilities", "internet">>

\* the number of configured categories the model runs with
NumCategories == 3

\* the categories of the run: the first NumCategories of the configuration
Categories == SubSeq(costCategoriesConfig, 1, NumCategories)

CategorySet == {Categories[i] : i \in 1..Len(Categories)}

\* Object.values(SEARCH_STRATEGIES): the catalog, in insertion order
Catalog == <<"numbeo_focused", "expatistan_focused", "reddit_local",
             "multi_source", "government_stats", "expat_forums">>

StrategySet == {Catalog[i] : i \in 1..Len(Catalog)}

\* a bug of the catalog: every strategy leaves the confidence as returned
ConfidenceModifierNeutral(s) == 10

\* confidence_modifier of each strategy, in tenths
ConfidenceModifier(s) ==
    CASE s = "numbeo_focused"     -> 10
      [] s = "expatistan_focused" -> 9
      [] s = "reddit_local"       -> 8
      [] s = "multi_source"       -> 11
      [] s = "government_stats"   -> 12
      [] s = "expat_forums"       -> 7

\* a bug of the priority list: the two Numbeo-like sources come first
StrategyOrderSourcesFirst == <<"numbeo_focused", "expatistan_focused", "reddit_local",
                               "government_stats", "expat_forums">>

\* strategyOrder of selectStrategy, step 1.3
StrategyOrder == <<"numbeo_focused", "reddit_local", "government_stats",
                   "expatistan_focused", "expat_forums">>

Scale == 10 * 60

max_iterations == 3
min_acceptable_confidence == 50
confidence_target == 75
\* completeness_target 0.8, in hundredths
completeness_target == 80
\* the low-confidence threshold of adaptSearchBasedOnResults, and the
\* success threshold of reason
LowConfidence == 60

None == "none"

\* the number of collaborator calls (retrieval, extraction, summary, cache
\* save) that may fail in one run of the model
MaxFaults == 4

\* a category without a result in costCategories
NoResult == 0 - 1

-----------------------------------------------------------------------------
(* strategies.js *)

\* a bug of the selector: failed strategies are not filtered out
AvailableUnfiltered(failedC) == Catalog

\* selectStrategy, lines 72-74: the catalog strategies not failed for the category
Available(failedC) == SelectSeq(Catalog, LAMBDA s : s \notin failedC)

\* Array.prototype.includes
Includes(seq, x) == \E i \in 1..Len(seq) : seq[i] = x

\* Array.prototype.find, on the elements that satisfy the test: the first, or None
First(hits) == IF hits = <<>> THEN None ELSE hits[1]

\* a bug of the selector: no first-iteration rule, the priority ordering is
\* used from iteration 0 on
selectStrategyNoFirstIteration(mem, st, category) ==
    LET categoryFailedStrategies == mem.failed_strategies_by_category[category]
        categorySuccessfulStrategies == mem.successful_strategies_by_category[category]
        availableStrategies == Available(categoryFailedStrategies)
        successfulStrategy ==
            First(SelectSeq(availableStrategies,
                            LAMBDA s : s \in categorySuccessfulStrategies))
        nextStrategy ==
            First(SelectSeq(StrategyOrder,
                            LAMBDA s : Includes(availableStrategies, s)))
    IN  IF availableStrategies = <<>> THEN "multi_source"
        ELSE IF successfulStrategy # None THEN successfulStrategy
        ELSE IF nextStrategy # None THEN nextStrategy
        ELSE availableStrategies[1]

\* a bug of the selector: the first-iteration rule is tried before the
\* historical winner
selectStrategyFirstIterationFirst(mem, st, category) ==
    LET categoryFailedStrategies == mem.failed_strategies_by_category[category]
        categorySuccessfulStrategies == mem.successful_strategies_by_category[category]
        availableStrategies == Available(categoryFailedStrategies)
        successfulStrategy ==
            First(SelectSeq(availableStrategies,
                            LAMBDA s : s \in categorySuccessfulStrategies))
        nextStrategy ==
            First(SelectSeq(StrategyOrder,
                            LAMBDA s : Includes(availableStrategies, s)))
    IN  IF availableStrategies = <<>> THEN "multi_source"
        ELSE IF st.iteration = 0 THEN "multi_source"
        ELSE IF successfulStrategy # None THEN successfulStrategy
        ELSE IF nextStrategy # None THEN nextStrategy
        ELSE availableStrategies[1]

\* a bug of the selector: the failures of all categories are pooled
selectStrategyPooledFailures(mem, st, category) ==
    LET categoryFailedStrategies ==
            UNION {mem.failed_strategies_by_category[c] : c \in CategorySet}
        categorySuccessfulStrategies == mem.successful_strategies_by_category[category]
        availableStrategies == Available(categoryFailedStrategies)
        successfulStrategy ==
            First(SelectSeq(availableStrategies,
                            LAMBDA s : s \in categorySuccessfulStrategies))
        nextStrategy ==
            First(SelectSeq(StrategyOrder,
                            LAMBDA s : Includes(availableStrategies, s)))
    IN  IF availableStrategies = <<>> THEN "multi_source"
        ELSE IF successfulStrategy # None THEN successfulStrategy
        ELSE IF st.iteration = 0 THEN "multi_source"
        ELSE IF nextStrategy # None THEN nextStrategy
        ELSE availableStrategies[1]

\* a bug of the selector: a strategy on record as successful wins whether or
\* not it is on record as failed
selectStrategyWinnerDespiteFailure(mem, st, category) ==
    LET categoryFailedStrategies == mem.failed_strategies_by_category[category]
        categorySuccessfulStrategies == mem.successful_strategies_by_category[category]
        availableStrategies == Available(categoryFailedStrategies)
        successfulStrategy ==
            First(SelectSeq(Catalog, LAMBDA s : s \in categorySuccessfulStrategies))
        nextStrategy ==
            First(SelectSeq(StrategyOrder,
                            LAMBDA s : Includes(availableStrategies, s)))
    IN  IF availableStrategies = <<>> THEN "multi_source"
        ELSE IF successfulStrategy # None THEN successfulStrategy
        ELSE IF st.iteration = 0 THEN "multi_source"
        ELSE IF nextStrategy # None THEN nextStrategy
        ELSE availableStrategies[1]

\* selectStrategy(context, category): the name of the strategy returned,
\* given the category's failed and successful sets and state.iteration
selectStrategy(mem, st, category) ==
    LET categoryFailedStrategies == mem.failed_strategies_by_category[category]
        categorySuccessfulStrategies == mem.successful_strategies_by_category[category]
        availableStrategies == Available(categoryFailedStrategies)
        successfulStrategy ==
            First(SelectSeq(availableStrategies,
                            LAMBDA s : s \in categorySuccessfulStrategies))
        nextStrategy ==
            First(SelectSeq(StrategyOrder,
                            LAMBDA s : Includes(availableStrategies, s)))
    IN  IF availableStrategies = <<>> THEN "multi_source"
        ELSE IF successfulStrategy # None THEN successfulStrategy
        ELSE IF st.iteration = 0 THEN "multi_source"
        ELSE IF nextStrategy # None THEN nextStrategy
        ELSE availableStrategies[1]

\* a bug of generateAdaptations: the broad search from two low categories on
generateAdaptationsFromTwo(nLow) ==
    (IF nLow >= 2 THEN {"expand_search_terms"} ELSE {})
    \cup (IF nLow > 0 THEN {"alternative_category_approach", "try_local_sources"}
          ELSE {})

\* generateAdaptations(context, lowConfidenceCategories), by the number of
\* low-confidence categories
generateAdaptations(nLow) ==
    (IF nLow > 2 THEN {"expand_search_terms"} ELSE {})
    \cup (IF nLow > 0 THEN {"alternative_category_approach", "try_local_sources"}
          ELSE {})

\* the results of a Reasoning stage with confidence below 60
LowConfidenceCategories(results) ==
    {c \in CategorySet : results[c] # NoResult /\ results[c] < LowConfidence * 10}

\* a bug of adaptSearchBasedOnResults: every category with a result counts as
\* low-confidence
adaptSearchBasedOnResultsAllLow(results) ==
    LET n == Cardinality({c \in CategorySet : results[c] # NoResult})
    IN  [needs_retry |-> n * 2 > n,
         suggested_adaptations |-> generateAdaptations(n)]

\* adaptSearchBasedOnResults(context, results)
adaptSearchBasedOnResults(results) ==
    LET n == Cardinality({c \in CategorySet : results[c] # NoResult})
        nLow == Cardinality(LowConfidenceCategories(results))
    IN  [needs_retry |-> nLow * 2 > n,
         suggested_adaptations |-> generateAdaptations(nLow)]

-----------------------------------------------------------------------------
(* context.js *)

NoEntry == [kind |-> None]

\* createAgentContext: state, memory
InitState ==
    [iteration |-> 0, max_iterations |-> max_iterations, confidence |-> 0,
     completeness |-> 0, goals_met |-> FALSE, current_adaptations |-> {}]

InitMemory ==
    [attempted_strategies |-> [n |-> 0, last |-> NoEntry],
     failed_strategies_by_category |-> [c \in CategorySet |-> {}],
     successful_strategies_by_category |-> [c \in CategorySet |-> {}],
     failed_strategies |-> "undefined"]

\* addError(context, phase, message, category): the log after the push.
\* The message is kept as the iteration number it names (0 when it names none).
addError(errs, phase, msgIteration, category) ==
    [n |-> errs.n + 1,
     last |-> [kind |-> "error", phase |-> phase, iteration |-> msgIteration,
               category |-> category]]

\* a bug of evaluateGoals: a retry whatever the confidence
evaluateGoalsNoFloor(st) ==
    LET confidence_met == st.confidence >= confidence_target * Scale
        completeness_met == st.completeness >= completeness_target * NumCategories
        min_acceptable == st.confidence >= min_acceptable_confidence * Scale
        gm == confidence_met /\ completeness_met
    IN  [confidence_met |-> confidence_met,
         completeness_met |-> completeness_met,
         min_acceptable |-> min_acceptable,
         goals_met |-> gm,
         should_retry |-> ~gm /\ st.iteration < st.max_iterations]

\* a bug of evaluateGoals: the targets must be exceeded, not reached
evaluateGoalsStrict(st) ==
    LET confidence_met == st.confidence > confidence_target * Scale
        completeness_met == st.completeness > completeness_target * NumCategories
        min_acceptable == st.confidence >= min_acceptable_confidence * Scale
        gm == confidence_met /\ completeness_met
    IN  [confidence_met |-> confidence_met,
         completeness_met |-> completeness_met,
         min_acceptable |-> min_acceptable,
         goals_met |-> gm,
         should_retry |-> ~gm /\ st.iteration < st.max_iterations /\ min_acceptable]

\* a bug of evaluateGoals: one target reached is enough
evaluateGoalsEither(st) ==
    LET confidence_met == st.confidence >= confidence_target * Scale
        completeness_met == st.completeness >= completeness_target * NumCategories
        min_acceptable == st.confidence >= min_acceptable_confidence * Scale
        gm == confidence_met \/ completeness_met
    IN  [confidence_met |-> confidence_met,
         completeness_met |-> completeness_met,
         min_acceptable |-> min_acceptable,
         goals_met |-> gm,
         should_retry |-> ~gm /\ st.iteration < st.max_iterations /\ min_acceptable]

\* evaluateGoals(context): the evaluation returned
evaluateGoals(st) ==
    LET confidence_met == st.confidence >= confidence_target * Scale
        completeness_met == st.completeness >= completeness_target * NumCategories
        min_acceptable == st.confidence >= min_acceptable_confidence * Scale
        gm == confidence_met /\ completeness_met
    IN  [confidence_met |-> confidence_met,
         completeness_met |-> completeness_met,
         min_acceptable |-> min_acceptable,
         goals_met |-> gm,
         should_retry |-> ~gm /\ st.iteration < st.max_iterations /\ min_acceptable]

\* recordStrategy(context, strategyName, category, success, confidence):
\* the memory after the call
recordStrategy(mem, st, strategyName, category, success, conf) ==
    [mem EXCEPT
        !.attempted_strategies =
            [n |-> @.n + 1,
             last |-> [kind |-> "attempt", strategy |-> strategyName,
                       category |-> category, success |-> success,
                       confidence |-> conf, iteration |-> st.iteration]],
        !.successful_strategies_by_category[category] =
            IF success THEN @ \cup {strategyName} ELSE @,
        !.failed_strategies_by_category[category] =
            IF success THEN @ ELSE @ \cup {strategyName}]

-----------------------------------------------------------------------------
(* cache.js and the bundles *)

\* the agent seen on its own: no orchestrator state
NoMain == [pc |-> None]

NoBundle == [kind |-> None]

Bundle(s) ==
    [kind |-> "bundle", strategy_used |-> s,
     confidence_modifier |-> ConfidenceModifier(s)]

NoPerception == [kind |-> None]

\* a stored perception whose JSON holds no metadata object
MalformedPerception == [kind |-> "malformed"]

NoCache == [kind |-> None]

\* a cache file: fresh when its timestamp is within cacheExpiryDays
CacheEntry(fresh, p) == [kind |-> "entry", fresh |-> fresh, perception |-> p]

\* a bug of hasCachedData: an entry written less than a day ago counts as
\* expired, so no entry the agent wrote itself is ever valid
hasCachedDataOlderOnly(file) == FALSE

\* hasCachedData(cityObj, cacheDir, cacheExpiryDays)
hasCachedData(file) == file.kind = "entry" /\ file.fresh

\* loadCachedData(cityObj, cacheDir)
loadCachedData(file) == file.perception

\* saveCacheData(cityObj, perception, ...): the file after the call; ok is
\* whether the file system let the write through
saveCacheData(file, p, ok) == IF ok THEN CacheEntry(TRUE, p) ELSE file

\* the perception object built at the end of a fresh Perception pass
FreshPerception(results, successful, st) ==
    [kind |-> "perception", category_searches |-> results,
     successful_categories |-> successful,
     data_source |-> "fresh_serp_calls", agent_iteration |-> st.iteration]

\* perceptions an earlier run of the program can have left in the cache
StoredPerceptions ==
    { FreshPerception([c \in CategorySet |-> Bundle("multi_source")],
                      NumCategories, InitState),
      FreshPerception([c \in CategorySet |->
                          IF c = Categories[NumCategories] THEN NoBundle
                          ELSE Bundle("multi_source")],
                      NumCategories - 1, InitState),
      MalformedPerception }

\* the confidences the extraction collaborator returns
Confidences == {50, 90}

-----------------------------------------------------------------------------
(* agent.js *)

Min(a, b) == IF a < b THEN a ELSE b

NoQuery == [kind |-> None]

NoEvaluation == [kind |-> None]

NoReasoning == [kind |-> None]

\* the query perceive builds (lines 39-53): the strategy's base query and the
\* extra terms of the adaptations in force
BuildQuery(s, category, adaptations) ==
    [kind |-> "query", strategy |-> s, category |-> category,
     terms |-> adaptations \cap {"expand_search_terms", "try_local_sources"}]

Init ==
    /\ pc = "loop"
    /\ state = InitState
    /\ memory = InitMemory
    /\ errors = [n |-> 0, last |-> NoEntry]
    /\ perception = NoPerception
    /\ reasoning = NoReasoning
    /\ cache \in {NoCache} \cup {CacheEntry(f, p) : f \in BOOLEAN, p \in StoredPerceptions}
    /\ ci = 0
    /\ strategy = None
    /\ query = NoQuery
    /\ categorySearchResults = [c \in CategorySet |-> NoBundle]
    /\ successfulCategories = 0
    /\ costCategories = [c \in CategorySet |-> NoResult]
    /\ totalConfidence = 0
    /\ categoriesProcessed = 0
    /\ evaluation = NoEvaluation
    /\ sent = {}
    /\ passes = 0
    /\ everRetrievalOk = FALSE
    /\ everRetrievalFail = FALSE
    /\ faults = 0
    /\ main = NoMain

\* a bug of agentTick: every pass starts without adaptations
LoopTestResetsAdaptations ==
    /\ pc = "loop"
    /\ IF state.iteration < state.max_iterations
       THEN pc' = "perceive" /\ passes' = passes + 1 /\ sent' = {}
       ELSE pc' = "finalize" /\ UNCHANGED <<passes, sent>>
    /\ state' = [state EXCEPT !.current_adaptations = {}]
    /\ UNCHANGED <<memory, errors, perception, reasoning, cache, ci, strategy,
                   query, categorySearchResults, successfulCategories, costCategories,
                   totalConfidence, categoriesProcessed, evaluation,
                   everRetrievalOk, everRetrievalFail, faults>>
    /\ UNCHANGED main

\* a bug of agentTick: the loop test lets a pass start at max_iterations
LoopTestInclusive ==
    /\ pc = "loop"
    /\ IF state.iteration <= state.max_iterations
       THEN pc' = "perceive" /\ passes' = passes + 1 /\ sent' = {}
       ELSE pc' = "finalize" /\ UNCHANGED <<passes, sent>>
    /\ UNCHANGED <<state, memory, errors, perception, reasoning, cache, ci, strategy,
                   query, categorySearchResults, successfulCategories, costCategories,
                   totalConfidence, categoriesProcessed, evaluation,
                   everRetrievalOk, everRetrievalFail, faults>>
    /\ UNCHANGED main

\* agentTick, line 289: the loop test
LoopTest ==
    /\ pc = "loop"
    /\ IF state.iteration < state.max_iterations
       THEN pc' = "perceive" /\ passes' = passes + 1 /\ sent' = {}
       ELSE pc' = "finalize" /\ UNCHANGED <<passes, sent>>
    /\ UNCHANGED <<state, memory, errors, perception, reasoning, cache, ci, strategy,
                   query, categorySearchResults, successfulCategories, costCategories,
                   totalConfidence, categoriesProcessed, evaluation,
                   everRetrievalOk, everRetrievalFail, faults>>
    /\ UNCHANGED main

\* a bug of the catch block: the iteration counter is not advanced
AgentTickCatchNoIncrement(errs) ==
    /\ errors' = addError(errs, "agent_tick", state.iteration + 1, None)
    /\ state' = state
    /\ pc' = IF state.iteration >= state.max_iterations THEN "finalize" ELSE "loop"

\* a bug of the catch block: the exception is swallowed without a log entry
AgentTickCatchSilent(errs) ==
    /\ errors' = errs
    /\ state' = [state EXCEPT !.iteration = @ + 1]
    /\ pc' = IF state.iteration + 1 >= state.max_iterations THEN "finalize" ELSE "loop"

\* agentTick, lines 318-325: the catch block, for an exception out of a stage
AgentTickCatch(errs) ==
    /\ errors' = addError(errs, "agent_tick", state.iteration + 1, None)
    /\ state' = [state EXCEPT !.iteration = @ + 1]
    /\ pc' = IF state.iteration + 1 >= state.max_iterations THEN "finalize" ELSE "loop"

\* a bug of the cache-hit branch: the loaded perception is written back to
\* the cache
PerceiveCachedResaves ==
    /\ pc = "perceive"
    /\ hasCachedData(cache)
    /\ loadCachedData(cache).kind = "perception"
    /\ perception' = [loadCachedData(cache) EXCEPT !.data_source = "cached_data"]
    /\ cache' = saveCacheData(cache, perception', TRUE)
    /\ pc' = "reason"
    /\ UNCHANGED <<state, memory, errors, reasoning, ci, strategy, query,
                   categorySearchResults, successfulCategories, costCategories,
                   totalConfidence, categoriesProcessed, evaluation, sent, passes,
                   everRetrievalOk, everRetrievalFail, faults>>
    /\ UNCHANGED main

\* perceive, lines 17-23: cache hit
PerceiveCached ==
    /\ pc = "perceive"
    /\ hasCachedData(cache)
    /\ loadCachedData(cache).kind = "perception"
    /\ perception' = [loadCachedData(cache) EXCEPT !.data_source = "cached_data"]
    /\ pc' = "reason"
    /\ UNCHANGED <<state, memory, errors, reasoning, cache, ci, strategy, query,
                   categorySearchResults, successfulCategories, costCategories,
                   totalConfidence, categoriesProcessed, evaluation, sent, passes,
                   everRetrievalOk, everRetrievalFail, faults>>
    /\ UNCHANGED main

\* perceive, lines 17-20 and 107-110: the stored perception has no metadata,
\* the assignment of line 20 throws, perceive logs and rethrows to agentTick
PerceiveCachedThrows ==
    /\ pc = "perceive"
    /\ hasCachedData(cache)
    /\ loadCachedData(cache).kind = "malformed"
    /\ AgentTickCatch(addError(errors, "perception", 0, None))
    /\ UNCHANGED <<memory, perception, reasoning, cache, ci, strategy, query,
                   categorySearchResults, successfulCategories, costCategories,
                   totalConfidence, categoriesProcessed, evaluation, sent, passes,
                   everRetrievalOk, everRetrievalFail, faults>>
    /\ UNCHANGED main

\* perceive, lines 17 and 26-29: no valid cache entry, start the category loop
PerceiveFresh ==
    /\ pc = "perceive"
    /\ ~hasCachedData(cache)
    /\ categorySearchResults' = [c \in CategorySet |-> NoBundle]
    /\ successfulCategories' = 0
    /\ ci' = 1
    /\ pc' = "select"
    /\ UNCHANGED <<state, memory, errors, perception, reasoning, cache, strategy, query,
                   costCategories, totalConfidence, categoriesProcessed, evaluation,
                   sent, passes, everRetrievalOk, everRetrievalFail, faults>>
    /\ UNCHANGED main

\* perceive, lines 37-56: select the strategy, build the query, send it
PerceiveSelect ==
    /\ pc = "select"
    /\ LET category == Categories[ci]
           s == selectStrategy(memory, state, category)
           q == BuildQuery(s, category, state.current_adaptations)
       IN  /\ strategy' = s
           /\ query' = q
           /\ sent' = sent \cup {q}
    /\ pc' = "fetch"
    /\ UNCHANGED <<state, memory, errors, perception, reasoning, cache, ci,
                   categorySearchResults, successfulCategories, costCategories,
                   totalConfidence, categoriesProcessed, evaluation, passes,
                   everRetrievalOk, everRetrievalFail, faults>>
    /\ UNCHANGED main

\* perceive returns: its locals go out of scope
PerceiveReturns ==
    /\ categorySearchResults' = [c \in CategorySet |-> NoBundle]
    /\ successfulCategories' = 0
    /\ strategy' = None
    /\ ci' = 0

\* a bug of perceive: the loop steps over the category after the one in hand
PerceiveNextStepsOver ==
    IF ci + 1 < NumCategories
    THEN ci' = ci + 2 /\ pc' = "select"
    ELSE ci' = NumCategories /\ pc' = "pfinish"

\* the end of one turn of perceive's category loop
PerceiveNext ==
    IF ci < NumCategories
    THEN ci' = ci + 1 /\ pc' = "select"
    ELSE ci' = ci /\ pc' = "pfinish"

\* perceive, lines 56-68: the retrieval call returned
FetchReturns ==
    /\ pc = "fetch"
    /\ categorySearchResults' =
          [categorySearchResults EXCEPT ![Categories[ci]] = Bundle(strategy)]
    /\ successfulCategories' = successfulCategories + 1
    /\ everRetrievalOk' = TRUE
    /\ query' = NoQuery
    /\ PerceiveNext
    /\ UNCHANGED <<state, memory, errors, perception, reasoning, cache, strategy,
                   costCategories, totalConfidence, categoriesProcessed, evaluation,
                   sent, passes, everRetrievalFail, faults>>
    /\ UNCHANGED main

\* a bug of perceive: no per-category try, the retrieval failure leaves the
\* stage through its outer catch
FetchThrowsAborts ==
    /\ faults < MaxFaults
    /\ faults' = faults + 1
    /\ pc = "fetch"
    /\ AgentTickCatch(addError(errors, "perception", 0, None))
    /\ everRetrievalFail' = TRUE
    /\ query' = NoQuery
    /\ PerceiveReturns
    /\ UNCHANGED <<memory, perception, reasoning, cache, costCategories,
                   totalConfidence, categoriesProcessed, evaluation, sent, passes,
                   everRetrievalOk>>
    /\ UNCHANGED main

\* a bug of perceive: the handler asks the selector as of the next iteration
FetchThrowsSelectsAhead ==
    /\ faults < MaxFaults
    /\ faults' = faults + 1
    /\ pc = "fetch"
    /\ LET category == Categories[ci]
       IN  /\ errors' = addError(errors, "perception", 0, category)
           /\ memory' = recordStrategy(memory, state,
                                       selectStrategy(memory,
                                           [state EXCEPT !.iteration = @ + 1],
                                           category),
                                       category, FALSE, 0)
    /\ everRetrievalFail' = TRUE
    /\ query' = NoQuery
    /\ PerceiveNext
    /\ UNCHANGED <<state, perception, reasoning, cache, strategy,
                   categorySearchResults, successfulCategories, costCategories,
                   totalConfidence, categoriesProcessed, evaluation, sent, passes,
                   everRetrievalOk>>
    /\ UNCHANGED main

\* perceive, lines 70-77: the retrieval call threw
FetchThrows ==
    /\ faults < MaxFaults
    /\ faults' = faults + 1
    /\ pc = "fetch"
    /\ LET category == Categories[ci]
       IN  /\ errors' = addError(errors, "perception", 0, category)
           /\ memory' = recordStrategy(memory, state,
                                       selectStrategy(memory, state, category),
                                       category, FALSE, 0)
    /\ everRetrievalFail' = TRUE
    /\ query' = NoQuery
    /\ PerceiveNext
    /\ UNCHANGED <<state, perception, reasoning, cache, strategy,
                   categorySearchResults, successfulCategories, costCategories,
                   totalConfidence, categoriesProcessed, evaluation, sent, passes,
                   everRetrievalOk>>
    /\ UNCHANGED main

\* a bug of perceive: a failed cache write is an exception of the stage
PerceiveFinishSaveFatal ==
    /\ pc = "pfinish"
    /\ LET p == FreshPerception(categorySearchResults, successfulCategories, state)
       IN  \E ok \in {TRUE} \cup {FALSE : x \in 1..(MaxFaults - faults)} :
              IF ok
              THEN /\ cache' = saveCacheData(cache, p, TRUE)
                   /\ faults' = faults
                   /\ perception' = p
                   /\ state' = [state EXCEPT
                                   !.completeness = successfulCategories * 100]
                   /\ pc' = "reason"
                   /\ errors' = errors
              ELSE /\ cache' = cache
                   /\ faults' = faults + 1
                   /\ perception' = perception
                   /\ AgentTickCatch(addError(errors, "perception", 0, None))
    /\ PerceiveReturns
    /\ UNCHANGED <<memory, reasoning, query, costCategories,
                   totalConfidence, categoriesProcessed, evaluation, sent, passes,
                   everRetrievalOk, everRetrievalFail>>
    /\ UNCHANGED main

\* perceive, lines 80-105: build the perception, save it, install it,
\* update completeness
PerceiveFinish ==
    /\ pc = "pfinish"
    /\ LET p == FreshPerception(categorySearchResults, successfulCategories, state)
       IN  /\ \E ok \in {TRUE} \cup {FALSE : x \in 1..(MaxFaults - faults)} :
                  /\ cache' = saveCacheData(cache, p, ok)
                  /\ faults' = IF ok THEN faults ELSE faults + 1
           /\ perception' = p
    /\ state' = [state EXCEPT
                    !.completeness = successfulCategories * 100]
    /\ pc' = "reason"
    /\ PerceiveReturns
    /\ UNCHANGED <<memory, errors, reasoning, query, costCategories,
                   totalConfidence, categoriesProcessed, evaluation, sent, passes,
                   everRetrievalOk, everRetrievalFail>>
    /\ UNCHANGED main

\* reason, lines 223-258: the catch block of the stage, the fallback analysis
FallbackReasoning ==
    [kind |-> "reasoning", cost_categories |-> [c \in CategorySet |-> NoResult],
     total_confidence |-> 0, remote_work_score |-> 0,
     reasoning_model |-> "error-fallback", has_error |-> TRUE]

\* reason, lines 115-125: the perception check and the start of the loop
ReasonStart ==
    /\ pc = "reason"
    /\ IF perception.kind = None
       THEN /\ AgentTickCatch(addError(errors, "reasoning", 0, None))
            /\ UNCHANGED <<costCategories, totalConfidence, categoriesProcessed, ci>>
       ELSE /\ costCategories' = [c \in CategorySet |-> NoResult]
            /\ totalConfidence' = 0
            /\ categoriesProcessed' = 0
            /\ ci' = 1
            /\ pc' = "rnext"
            /\ UNCHANGED <<state, errors>>
    /\ UNCHANGED <<memory, perception, reasoning, cache, strategy, query,
                   categorySearchResults, successfulCategories, evaluation, sent,
                   passes, everRetrievalOk, everRetrievalFail, faults>>
    /\ UNCHANGED main

\* the end of one turn of reason's category loop
ReasonNext ==
    IF ci < NumCategories
    THEN ci' = ci + 1 /\ pc' = "rnext"
    ELSE ci' = ci /\ pc' = "summary"

\* reason, lines 128-131: a category without a bundle is skipped
ReasonSkip ==
    /\ pc = "rnext"
    /\ perception.category_searches[Categories[ci]].kind = None
    /\ ReasonNext
    /\ UNCHANGED <<state, memory, errors, perception, reasoning, cache, strategy,
                   query, categorySearchResults, successfulCategories, costCategories,
                   totalConfidence, categoriesProcessed, evaluation, sent, passes,
                   everRetrievalOk, everRetrievalFail, faults>>
    /\ UNCHANGED main

\* reason, lines 128-134: a category with a bundle, the extraction call is made
ReasonExtract ==
    /\ pc = "rnext"
    /\ perception.category_searches[Categories[ci]].kind # None
    /\ pc' = "extract"
    /\ UNCHANGED <<state, memory, errors, perception, reasoning, cache, ci, strategy,
                   query, categorySearchResults, successfulCategories, costCategories,
                   totalConfidence, categoriesProcessed, evaluation, sent, passes,
                   everRetrievalOk, everRetrievalFail, faults>>
    /\ UNCHANGED main

\* a bug of reason: the scaled confidence is stored without the cap
ScaledConfidenceUnclamped(c, bundle) ==
    LET strategyModifier ==
            IF bundle.confidence_modifier = 0 THEN 10 ELSE bundle.confidence_modifier
    IN  c * strategyModifier

\* reason, lines 137-138: the confidence scaled by the bundle's modifier
\* (1.0 when none is recorded) and capped at 100, in tenths
ScaledConfidence(c, bundle) ==
    LET strategyModifier ==
            IF bundle.confidence_modifier = 0 THEN 10 ELSE bundle.confidence_modifier
    IN  Min(100 * 10, c * strategyModifier)

\* a bug of reason: the success threshold is min_acceptable_confidence
IsSuccessAtMinAcceptable(conf10) == conf10 >= min_acceptable_confidence * 10

\* reason, line 143
IsSuccess(conf10) == conf10 >= LowConfidence * 10

\* reason, lines 134-150: the extraction call returned a result of confidence c
ExtractReturns ==
    /\ pc = "extract"
    /\ \E c \in Confidences :
         LET category == Categories[ci]
             categoryPerception == perception.category_searches[category]
             conf == ScaledConfidence(c, categoryPerception)
         IN  /\ memory' = recordStrategy(memory, state, categoryPerception.strategy_used,
                                         category, IsSuccess(conf), conf)
             /\ costCategories' = [costCategories EXCEPT ![category] = conf]
             /\ totalConfidence' = totalConfidence + conf
             /\ categoriesProcessed' = categoriesProcessed + 1
    /\ ReasonNext
    /\ UNCHANGED <<state, errors, perception, reasoning, cache, strategy, query,
                   categorySearchResults, successfulCategories, evaluation, sent,
                   passes, everRetrievalOk, everRetrievalFail, faults>>
    /\ UNCHANGED main

\* reason, lines 152-154: the extraction call threw
ExtractThrows ==
    /\ faults < MaxFaults
    /\ faults' = faults + 1
    /\ pc = "extract"
    /\ errors' = addError(errors, "reasoning", 0, Categories[ci])
    /\ ReasonNext
    /\ UNCHANGED <<state, memory, perception, reasoning, cache, strategy, query,
                   categorySearchResults, successfulCategories, costCategories,
                   totalConfidence, categoriesProcessed, evaluation, sent, passes,
                   everRetrievalOk, everRetrievalFail>>
    /\ UNCHANGED main

\* reason returns: its locals go out of scope
ReasonReturns ==
    /\ costCategories' = [c \in CategorySet |-> NoResult]
    /\ totalConfidence' = 0
    /\ categoriesProcessed' = 0
    /\ ci' = 0

\* reason, line 157: the average confidence, in 1/Scale
AverageConfidence(total, processed) ==
    IF processed > 0 THEN (total * 60) \div processed ELSE 0

\* reason, lines 157-221: the summary call returned; the analysis is installed
\* and the state's confidence updated
SummaryReturns ==
    /\ pc = "summary"
    /\ LET averageConfidence == AverageConfidence(totalConfidence, categoriesProcessed)
       IN  /\ reasoning' = [kind |-> "reasoning", cost_categories |-> costCategories,
                            total_confidence |-> averageConfidence,
                            reasoning_model |-> "gpt-4o-mini",
                            agent_iteration |-> state.iteration]
           /\ state' = [state EXCEPT !.confidence = averageConfidence]
    /\ pc' = "reflect"
    /\ ReasonReturns
    /\ UNCHANGED <<memory, errors, perception, cache, strategy, query,
                   categorySearchResults, successfulCategories, evaluation, sent,
                   passes, everRetrievalOk, everRetrievalFail, faults>>
    /\ UNCHANGED main

\* a bug of reason: no catch around the stage, the exception reaches agentTick
SummaryThrowsPropagates ==
    /\ faults < MaxFaults
    /\ faults' = faults + 1
    /\ pc = "summary"
    /\ AgentTickCatch(addError(errors, "reasoning", 0, None))
    /\ ReasonReturns
    /\ UNCHANGED <<memory, perception, reasoning, cache, strategy, query,
                   categorySearchResults, successfulCategories, evaluation, sent,
                   passes, everRetrievalOk, everRetrievalFail>>
    /\ UNCHANGED main

\* reason, lines 223-258: an exception of the stage outside the per-category
\* try (the summary call is the collaborator call made there) is caught, and
\* the fallback analysis installed
SummaryThrows ==
    /\ faults < MaxFaults
    /\ faults' = faults + 1
    /\ pc = "summary"
    /\ errors' = addError(errors, "reasoning", 0, None)
    /\ reasoning' = FallbackReasoning
    /\ pc' = "reflect"
    /\ ReasonReturns
    /\ UNCHANGED <<state, memory, perception, cache, strategy, query,
                   categorySearchResults, successfulCategories, evaluation, sent,
                   passes, everRetrievalOk, everRetrievalFail>>
    /\ UNCHANGED main

\* a bug of reflect: the retry test inverted
reflectInverted(st, rsn) ==
    LET ev == evaluateGoals(st)
        results == IF rsn.kind = None
                   THEN [c \in CategorySet |-> NoResult]
                   ELSE rsn.cost_categories
        adaptationAnalysis == adaptSearchBasedOnResults(results)
    IN  IF ev.goals_met \/ ev.should_retry
        THEN [kind |-> "evaluation", should_continue |-> FALSE, adaptations |-> {}]
        ELSE [kind |-> "evaluation", should_continue |-> TRUE,
              adaptations |-> adaptationAnalysis.suggested_adaptations]

\* reflect(context), lines 263-283: what it returns
reflect(st, rsn) ==
    LET ev == evaluateGoals(st)
        results == IF rsn.kind = None
                   THEN [c \in CategorySet |-> NoResult]
                   ELSE rsn.cost_categories
        adaptationAnalysis == adaptSearchBasedOnResults(results)
    IN  IF ev.goals_met \/ ~ev.should_retry
        THEN [kind |-> "evaluation", should_continue |-> FALSE, adaptations |-> {}]
        ELSE [kind |-> "evaluation", should_continue |-> TRUE,
              adaptations |-> adaptationAnalysis.suggested_adaptations]

\* agentTick, lines 314-317: the adaptation that acts on memory
ApplyMemoryAdaptations(mem, adaptations) ==
    IF "alternative_category_approach" \in adaptations
    THEN [mem EXCEPT !.failed_strategies = "empty"]
    ELSE mem

\* agentTick, lines 302-310: Reflection ends the loop
ReflectStop ==
    /\ pc = "reflect"
    /\ LET ev == reflect(state, reasoning)
       IN  /\ ~ev.should_continue
           /\ evaluation' = ev
           /\ state' = [state EXCEPT !.goals_met = evaluateGoals(state).goals_met,
                                     !.current_adaptations = ev.adaptations]
    /\ pc' = "finalize"
    /\ UNCHANGED <<memory, errors, perception, reasoning, cache, ci, strategy, query,
                   categorySearchResults, successfulCategories, costCategories,
                   totalConfidence, categoriesProcessed, sent, passes,
                   everRetrievalOk, everRetrievalFail, faults>>
    /\ UNCHANGED main

\* agentTick, lines 302-317: Reflection asks for another pass
ReflectContinue ==
    /\ pc = "reflect"
    /\ LET ev == reflect(state, reasoning)
       IN  /\ ev.should_continue
           /\ evaluation' = ev
           /\ state' = [state EXCEPT !.goals_met = evaluateGoals(state).goals_met,
                                     !.current_adaptations = ev.adaptations,
                                     !.iteration = @ + 1]
           /\ memory' = ApplyMemoryAdaptations(memory, ev.adaptations)
    /\ pc' = "loop"
    /\ UNCHANGED <<errors, perception, reasoning, cache, ci, strategy, query,
                   categorySearchResults, successfulCategories, costCategories,
                   totalConfidence, categoriesProcessed, sent, passes,
                   everRetrievalOk, everRetrievalFail, faults>>
    /\ UNCHANGED main

\* agentTick, lines 328-332: the context is finalized and returned
Finalize ==
    /\ pc = "finalize"
    /\ pc' = "done"
    /\ UNCHANGED <<state, memory, errors, perception, reasoning, cache, ci, strategy,
                   query, categorySearchResults, successfulCategories, costCategories,
                   totalConfidence, categoriesProcessed, evaluation, sent, passes,
                   everRetrievalOk, everRetrievalFail, faults>>
    /\ UNCHANGED main

Next ==
    \/ LoopTest
    \/ PerceiveCached
    \/ PerceiveCachedThrows
    \/ PerceiveFresh
    \/ PerceiveSelect
    \/ FetchReturns
    \/ FetchThrows
    \/ PerceiveFinish
    \/ ReasonStart
    \/ ReasonSkip
    \/ ReasonExtract
    \/ ExtractReturns
    \/ ExtractThrows
    \/ SummaryReturns
    \/ SummaryThrows
    \/ ReflectStop
    \/ ReflectContinue
    \/ Finalize

Spec == Init /\ [][Next]_vars

\* evaluateGoals on its own: the inputs, confidence in percent and
\* completeness in hundredths
GoalConfidences == {0, 49, 50, 55, 74, 75, 80, 100}

GoalCompletenesses == {0, 50, 79, 80, 85, 100}

InitGoals ==
    /\ pc = "goals"
    /\ state \in {[InitState EXCEPT !.confidence = c * Scale,
                                     !.completeness = k * NumCategories,
                                     !.iteration = i] :
                     c \in GoalConfidences, k \in GoalCompletenesses,
                     i \in 0..max_iterations}
    /\ memory = InitMemory
    /\ errors = [n |-> 0, last |-> NoEntry]
    /\ perception = NoPerception
    /\ reasoning = NoReasoning
    /\ cache = NoCache
    /\ ci = 0
    /\ strategy = None
    /\ query = NoQuery
    /\ categorySearchResults = [c \in CategorySet |-> NoBundle]
    /\ successfulCategories = 0
    /\ costCategories = [c \in CategorySet |-> NoResult]
    /\ totalConfidence = 0
    /\ categoriesProcessed = 0
    /\ evaluation = NoEvaluation
    /\ sent = {}
    /\ passes = 0
    /\ everRetrievalOk = FALSE
    /\ everRetrievalFail = FALSE
    /\ faults = 0
    /\ main = NoMain

\* evaluateGoals, lines 70-84: goals_met is stored, the evaluation returned
EvaluateGoalsCall ==
    /\ pc = "goals"
    /\ evaluation' = evaluateGoals(state)
    /\ state' = [state EXCEPT !.goals_met = evaluateGoals(state).goals_met]
    /\ pc' = "evaluated"
    /\ UNCHANGED <<memory, errors, perception, reasoning, cache, ci, strategy, query,
                   categorySearchResults, successfulCategories, costCategories,
                   totalConfidence, categoriesProcessed, sent, passes,
                   everRetrievalOk, everRetrievalFail, faults>>
    /\ UNCHANGED main

SpecGoals == InitGoals /\ [][EvaluateGoalsCall]_vars

\* selectStrategy on its own: a category, any failed and successful sets
\* for it, any iteration number
InitSelect ==
    /\ pc = "selecting"
    /\ ci \in 1..NumCategories
    /\ state \in {[InitState EXCEPT !.iteration = i] : i \in 0..max_iterations}
    /\ memory \in {[InitMemory EXCEPT
                        !.failed_strategies_by_category[Categories[ci]] = f,
                        !.successful_strategies_by_category[Categories[ci]] = s] :
                     f \in SUBSET StrategySet, s \in SUBSET StrategySet}
    /\ errors = [n |-> 0, last |-> NoEntry]
    /\ perception = NoPerception
    /\ reasoning = NoReasoning
    /\ cache = NoCache
    /\ strategy = None
    /\ query = NoQuery
    /\ categorySearchResults = [c \in CategorySet |-> NoBundle]
    /\ successfulCategories = 0
    /\ costCategories = [c \in CategorySet |-> NoResult]
    /\ totalConfidence = 0
    /\ categoriesProcessed = 0
    /\ evaluation = NoEvaluation
    /\ sent = {}
    /\ passes = 0
    /\ everRetrievalOk = FALSE
    /\ everRetrievalFail = FALSE
    /\ faults = 0
    /\ main = NoMain

\* selectStrategy, lines 61-120: one call, for the category in hand
SelectStrategyCall ==
    /\ pc = "selecting"
    /\ strategy' = selectStrategy(memory, state, Categories[ci])
    /\ pc' = "selected"
    /\ UNCHANGED <<state, memory, errors, perception, reasoning, cache, ci, query,
                   categorySearchResults, successfulCategories, costCategories,
                   totalConfidence, categoriesProcessed, evaluation, sent, passes,
                   everRetrievalOk, everRetrievalFail, faults>>
    /\ UNCHANGED main

SpecSelect == InitSelect /\ [][SelectStrategyCall]_vars

\* the scaling step of reason seen on its own ---------------------------------

\* a bundle that records no confidence modifier
BundleWithoutModifier(s) ==
    [kind |-> "bundle", strategy_used |-> s, confidence_modifier |-> 0]

\* the confidence a call of extractCostData can return: the schema admits 0..100
RawConfidences == 0..100

\* results the categories before the one in hand can have left, in tenths
EarlierResults == {NoResult, 0, 100 * 10}

\* reason is about to scale the confidence returned for category ci, which the
\* slot of that category holds unscaled; the categories after it have no bundle
InitScale ==
    /\ pc = "scaling"
    /\ ci \in 1..NumCategories
    /\ state = InitState
    /\ memory = InitMemory
    /\ errors = [n |-> 0, last |-> NoEntry]
    /\ \E b \in {Bundle(s) : s \in StrategySet}
                  \cup {BundleWithoutModifier(Catalog[1])} :
         perception = FreshPerception(
                          [c \in CategorySet |->
                              IF c = Categories[ci] THEN b ELSE NoBundle],
                          1, InitState)
    /\ reasoning = NoReasoning
    /\ cache = NoCache
    /\ strategy = None
    /\ query = NoQuery
    /\ categorySearchResults = [c \in CategorySet |-> NoBundle]
    /\ successfulCategories = 0
    /\ \E raw \in RawConfidences :
       \E earlier \in [{Categories[i] : i \in 1..(ci - 1)} -> EarlierResults] :
         /\ costCategories =
                [c \in CategorySet |->
                    IF c = Categories[ci] THEN raw * 10
                    ELSE IF c \in DOMAIN earlier THEN earlier[c] ELSE NoResult]
         /\ totalConfidence =
                100 * 10 * Cardinality({c \in DOMAIN earlier : earlier[c] = 100 * 10})
         /\ categoriesProcessed =
                Cardinality({c \in DOMAIN earlier : earlier[c] # NoResult})
    /\ evaluation = NoEvaluation
    /\ sent = {}
    /\ passes = 1
    /\ everRetrievalOk = TRUE
    /\ everRetrievalFail = FALSE
    /\ faults = 0
    /\ main = NoMain

\* reason, lines 136-148: the returned confidence is scaled, stored and counted
ScaleCall ==
    /\ pc = "scaling"
    /\ LET category == Categories[ci]
           categoryPerception == perception.category_searches[category]
           conf == ScaledConfidence(costCategories[category] \div 10,
                                    categoryPerception)
       IN  /\ memory' = recordStrategy(memory, state, categoryPerception.strategy_used,
                                       category, IsSuccess(conf), conf)
           /\ costCategories' = [costCategories EXCEPT ![category] = conf]
           /\ totalConfidence' = totalConfidence + conf
           /\ categoriesProcessed' = categoriesProcessed + 1
    /\ pc' = "averaging"
    /\ UNCHANGED <<state, errors, perception, reasoning, cache, ci, strategy, query,
                   categorySearchResults, successfulCategories, evaluation, sent,
                   passes, everRetrievalOk, everRetrievalFail, faults, main>>

\* reason, lines 157 and 219: the average is computed and stored in the state
AverageCall ==
    /\ pc = "averaging"
    /\ state' = [state EXCEPT
                    !.confidence = AverageConfidence(totalConfidence,
                                                     categoriesProcessed)]
    /\ pc' = "averaged"
    /\ UNCHANGED <<memory, errors, perception, reasoning, cache, ci, strategy, query,
                   categorySearchResults, successfulCategories, costCategories,
                   totalConfidence, categoriesProcessed, evaluation, sent, passes,
                   everRetrievalOk, everRetrievalFail, faults, main>>

NextScale ==
    \/ ScaleCall
    \/ AverageCall

SpecScale == InitScale /\ [][NextScale]_vars

\* the end of the first pass seen on its own ----------------------------------

\* the confidences the extraction calls of the pass returned
ScenarioConfidences == {40, 60, 85, 90}

\* the memory after reason recorded categories 1..i of a pass of iteration 0
RECURSIVE RecordedMemory(_, _, _)
RecordedMemory(i, bundles, results) ==
    IF i = 0 THEN InitMemory
    ELSE recordStrategy(RecordedMemory(i - 1, bundles, results), InitState,
                        bundles[Categories[i]].strategy_used, Categories[i],
                        IsSuccess(results[Categories[i]]), results[Categories[i]])

RECURSIVE SumOver(_, _)
SumOver(i, results) ==
    IF i = 0 THEN 0 ELSE SumOver(i - 1, results) + results[Categories[i]]

\* the first pass, on an empty cache and an empty memory, has retrieved every
\* category with the strategy of iteration 0 and extracted every result; the
\* summary call is in flight
InitReflect ==
    /\ pc = "summary"
    /\ state = [InitState EXCEPT !.completeness = 100 * NumCategories]
    /\ errors = [n |-> 0, last |-> NoEntry]
    /\ reasoning = NoReasoning
    /\ ci = NumCategories
    /\ strategy = None
    /\ query = NoQuery
    /\ categorySearchResults = [c \in CategorySet |-> NoBundle]
    /\ successfulCategories = 0
    /\ evaluation = NoEvaluation
    /\ passes = 1
    /\ everRetrievalOk = TRUE
    /\ everRetrievalFail = FALSE
    /\ main = NoMain
    /\ LET bundles == [c \in CategorySet |->
                          Bundle(selectStrategy(InitMemory, InitState, c))]
           p == FreshPerception(bundles, NumCategories, InitState)
       IN  /\ perception = p
           /\ sent = {BuildQuery(bundles[c].strategy_used, c, {}) : c \in CategorySet}
           /\ \E saved \in BOOLEAN :
                 /\ cache = saveCacheData(NoCache, p, saved)
                 /\ faults = IF saved THEN 0 ELSE 1
           /\ \E returned \in [CategorySet -> ScenarioConfidences] :
                 LET results == [c \in CategorySet |->
                                    ScaledConfidence(returned[c], bundles[c])]
                 IN  /\ costCategories = results
                     /\ totalConfidence = SumOver(NumCategories, results)
                     /\ categoriesProcessed = NumCategories
                     /\ memory = RecordedMemory(NumCategories, bundles, results)

NextReflect ==
    \/ SummaryReturns
    \/ SummaryThrows
    \/ ReflectStop
    \/ ReflectContinue

SpecReflect == InitReflect /\ [][NextReflect]_vars

-----------------------------------------------------------------------------
(* utils.js *)

\* contextToAnalysis returned null
NoAnalysis == [kind |-> None]

\* contextToAnalysis(context): the CityAnalysis of a finished agent, or null
\* when the context holds no reasoning
contextToAnalysis(st, errs, p, rsn) ==
    IF rsn.kind = None
    THEN NoAnalysis
    ELSE [kind |-> "analysis", perception |-> p, reasoning |-> rsn,
          confidence |-> st.confidence, errors_count |-> errs.n,
          iterations_needed |-> st.iteration, goals_met |-> st.goals_met]

-----------------------------------------------------------------------------
(* main.js *)

\* CONFIG.cities
NumCities == 5

Cities == 1..NumCities

\* the promise of a city's task before it settles
Pending == [kind |-> "pending"]

NoContext == [kind |-> None]

\* what the task of a city resolves to, lines 45 and 49
Settled(context, error) == [kind |-> "settled", context |-> context, error |-> error]

\* contexts agentTick returns: every pass threw before Reasoning; Reasoning
\* fell back; the goals were met in the first pass
ReturnedContexts(city) ==
    LET p == FreshPerception([c \in CategorySet |-> Bundle("multi_source")],
                             NumCategories, InitState)
        results == [c \in CategorySet |->
                       ScaledConfidence(90, p.category_searches[c])]
        average == AverageConfidence(SumOver(NumCategories, results), NumCategories)
    IN  { [kind |-> "context", city |-> city,
           state |-> [InitState EXCEPT !.iteration = max_iterations],
           errors |-> [n |-> 2 * max_iterations,
                       last |-> addError([n |-> 0, last |-> NoEntry], "agent_tick",
                                         max_iterations, None).last],
           perception |-> NoPerception, reasoning |-> NoReasoning],
          [kind |-> "context", city |-> city,
           state |-> [InitState EXCEPT !.completeness = 100 * NumCategories],
           errors |-> addError([n |-> 0, last |-> NoEntry], "reasoning", 0, None),
           perception |-> p, reasoning |-> FallbackReasoning],
          [kind |-> "context", city |-> city,
           state |-> [InitState EXCEPT !.completeness = 100 * NumCategories,
                                       !.confidence = average,
                                       !.goals_met = TRUE],
           errors |-> [n |-> 0, last |-> NoEntry],
           perception |-> p,
           reasoning |-> [kind |-> "reasoning", cost_categories |-> results,
                          total_confidence |-> average,
                          reasoning_model |-> "gpt-4o-mini",
                          agent_iteration |-> 0]] }

\* main, line 54
successfulAgents(agentResults) ==
    SelectSeq(agentResults, LAMBDA result : result.context # NoContext)

\* main, line 62: the analysis of a returned context, with its city
CityAnalysis(context) ==
    LET analysis == contextToAnalysis(context.state, context.errors,
                                      context.perception, context.reasoning)
    IN  IF analysis = NoAnalysis THEN NoAnalysis
        ELSE [kind |-> "analysis", city |-> context.city, summary |-> analysis]

\* main, lines 61-63
cityAnalyses(successful) ==
    SelectSeq([i \in 1..Len(successful) |-> CityAnalysis(successful[i].context)],
              LAMBDA analysis : analysis # NoAnalysis)

\* main, lines 39-51: one task per city has been started
InitMain ==
    /\ main = [pc |-> "awaiting", tasks |-> [city \in Cities |-> Pending],
               cityAnalyses |-> <<>>]
    /\ pc = "main"
    /\ state = InitState
    /\ memory = InitMemory
    /\ errors = [n |-> 0, last |-> NoEntry]
    /\ perception = NoPerception
    /\ reasoning = NoReasoning
    /\ cache = NoCache
    /\ ci = 0
    /\ strategy = None
    /\ query = NoQuery
    /\ categorySearchResults = [c \in CategorySet |-> NoBundle]
    /\ successfulCategories = 0
    /\ costCategories = [c \in CategorySet |-> NoResult]
    /\ totalConfidence = 0
    /\ categoriesProcessed = 0
    /\ evaluation = NoEvaluation
    /\ sent = {}
    /\ passes = 0
    /\ everRetrievalOk = FALSE
    /\ everRetrievalFail = FALSE
    /\ faults = 0

AgentUnchanged ==
    UNCHANGED <<pc, state, memory, errors, perception, reasoning, cache, ci, strategy,
                query, categorySearchResults, successfulCategories, costCategories,
                totalConfidence, categoriesProcessed, evaluation, sent, passes,
                everRetrievalOk, everRetrievalFail, faults>>

\* main, lines 44-45: agentTick returned a context for the city
TaskReturns(city) ==
    /\ main.pc = "awaiting"
    /\ main.tasks[city] = Pending
    /\ \E context \in ReturnedContexts(city) :
          main' = [main EXCEPT !.tasks[city] = Settled(context, None)]
    /\ AgentUnchanged

\* a bug of main: the task of a city is not guarded, its exception rejects the
\* whole wait and main exits
TaskThrowsRejects(city) ==
    /\ main.pc = "awaiting"
    /\ main.tasks[city] = Pending
    /\ main' = [main EXCEPT !.tasks[city] = Settled(NoContext, "message"),
                            !.pc = "exit"]
    /\ AgentUnchanged

\* main, lines 47-50: the task of the city threw; the exception is caught
TaskThrows(city) ==
    /\ main.pc = "awaiting"
    /\ main.tasks[city] = Pending
    /\ main' = [main EXCEPT !.tasks[city] = Settled(NoContext, "message")]
    /\ AgentUnchanged

\* Promise.all, line 53: the results of the settled tasks, in city order
AllSettled == \A city \in Cities : main.tasks[city] # Pending

\* main, lines 53-65: every task has settled, some returned a context; the
\* analyses are handed to generateComparativeAnalysis
MainCollects ==
    /\ main.pc = "awaiting"
    /\ AllSettled
    /\ LET agentResults == [i \in 1..NumCities |-> main.tasks[i]]
           successful == successfulAgents(agentResults)
       IN  /\ Len(successful) # 0
           /\ main' = [main EXCEPT !.pc = "ranking",
                                   !.cityAnalyses = cityAnalyses(successful)]
    /\ AgentUnchanged

\* main, lines 53-59 and 93-96: every task has settled, none returned a context
MainExits ==
    /\ main.pc = "awaiting"
    /\ AllSettled
    /\ LET agentResults == [i \in 1..NumCities |-> main.tasks[i]]
       IN  Len(successfulAgents(agentResults)) = 0
    /\ main' = [main EXCEPT !.pc = "exit"]
    /\ AgentUnchanged

NextMain ==
    \/ \E city \in Cities : TaskReturns(city)
    \/ \E city \in Cities : TaskThrows(city)
    \/ MainCollects
    \/ MainExits

SpecMain == InitMain /\ [][NextMain]_vars

\* the cache file of a city -------------------------------------------------
\* (cache.js; names are sequences of characters)

MaxNameLen == 2

\* characters of a name: a lower-case letter, an upper-case letter, a
\* character that is neither a letter nor a digit
Alphabet == {"a", "A", "-"}

Names == UNION {[1..n -> Alphabet] : n \in 1..MaxNameLen}

\* String.prototype.toLowerCase, on a character
ToLowerCase(ch) == IF ch = "A" THEN "a" ELSE ch

\* the characters the pattern [^a-z0-9] does not match
LowerAlnum ==
    {"a", "b", "c", "d", "e", "f", "g", "h", "i", "j", "k", "l", "m", "n", "o", "p",
     "q", "r", "s", "t", "u", "v", "w", "x", "y", "z",
     "0", "1", "2", "3", "4", "5", "6", "7", "8", "9"}

\* replace(/[^a-z0-9]/g, '_'), on a character
ReplaceNonAlnum(ch) == IF ch \in LowerAlnum THEN ch ELSE "_"

\* getCacheFilePath(cityObj, cacheDir), lines 4-7
getCacheFilePath(cityObj) ==
    LET joined == cityObj.name \o <<"_">> \o cityObj.country
        cityIdentifier == [i \in 1..Len(joined) |->
                              ReplaceNonAlnum(ToLowerCase(joined[i]))]
    IN  <<"cache", "/">> \o cityIdentifier \o <<"_cache.json">>

CityObjs == [name : Names, country : Names]

\* the tasks of two different cities are about to look up their cache files
InitCachePath ==
    /\ \E a, b \in CityObjs :
          /\ a # b
          /\ main = [pc |-> "paths", cities |-> <<a, b>>, files |-> <<>>]
    /\ pc = "main"
    /\ state = InitState
    /\ memory = InitMemory
    /\ errors = [n |-> 0, last |-> NoEntry]
    /\ perception = NoPerception
    /\ reasoning = NoReasoning
    /\ cache = NoCache
    /\ ci = 0
    /\ strategy = None
    /\ query = NoQuery
    /\ categorySearchResults = [c \in CategorySet |-> NoBundle]
    /\ successfulCategories = 0
    /\ costCategories = [c \in CategorySet |-> NoResult]
    /\ totalConfidence = 0
    /\ categoriesProcessed = 0
    /\ evaluation = NoEvaluation
    /\ sent = {}
    /\ passes = 0
    /\ everRetrievalOk = FALSE
    /\ everRetrievalFail = FALSE
    /\ faults = 0

\* perceive, line 17 (hasCachedData, line 11): each task computes its file
GetCacheFilePathCall ==
    /\ main.pc = "paths"
    /\ main' = [main EXCEPT
                   !.pc = "resolved",
                   !.files = [i \in 1..Len(main.cities) |->
                                 getCacheFilePath(main.cities[i])]]
    /\ AgentUnchanged

SpecCachePath == InitCachePath /\ [][GetCacheFilePathCall]_vars

-----------------------------------------------------------------------------
(* search.js: the quality score of an evidence bundle *)

MaxOrganic == 12

\* display_link values whose text includes numbeo, expatistan or livingcost
TrustedLinks == {"www.numbeo.com", "www.expatistan.com", "livingcost.org"}

\* display_link values that include none of them; an item can have no link
NoLink == "undefined"

OtherLinks == {"www.reddit.com", NoLink}

\* line 99-101: item.display_link?.includes(...) for one of the three names
IsRelevantSource(item) == item.display_link \in TrustedLinks

NoKnowledge == [kind |-> None]

KnowledgePanel == [kind |-> "knowledge"]

\* a bug of the score: the relevant sources are counted without their cap
calculateDataQualityScoreUncapped(searchData) ==
    LET organicPoints == Min(Len(searchData.organic) * 5, 50)
        knowledgePoints == IF searchData.knowledge # NoKnowledge THEN 20 ELSE 0
        relevantSources == Len(SelectSeq(searchData.organic, IsRelevantSource))
    IN  Min(organicPoints + knowledgePoints + relevantSources * 10, 100)

\* calculateDataQualityScore(searchData), lines 91-106
calculateDataQualityScore(searchData) ==
    LET organicPoints == Min(Len(searchData.organic) * 5, 50)
        knowledgePoints == IF searchData.knowledge # NoKnowledge THEN 20 ELSE 0
        relevantSources == Len(SelectSeq(searchData.organic, IsRelevantSource))
    IN  Min(organicPoints + knowledgePoints + Min(relevantSources * 10, 30), 100)

\* the agent of the city has not started
AgentNotStarted ==
    /\ pc = "main"
    /\ state = InitState
    /\ memory = InitMemory
    /\ errors = [n |-> 0, last |-> NoEntry]
    /\ perception = NoPerception
    /\ reasoning = NoReasoning
    /\ cache = NoCache
    /\ ci = 0
    /\ strategy = None
    /\ query = NoQuery
    /\ categorySearchResults = [c \in CategorySet |-> NoBundle]
    /\ successfulCategories = 0
    /\ costCategories = [c \in CategorySet |-> NoResult]
    /\ totalConfidence = 0
    /\ categoriesProcessed = 0
    /\ evaluation = NoEvaluation
    /\ sent = {}
    /\ passes = 0
    /\ everRetrievalOk = FALSE
    /\ everRetrievalFail = FALSE
    /\ faults = 0

\* buildPerceptionFromSearchData is about to score the cleaned search data:
\* up to MaxOrganic organic items, each with a link of one of two kinds, and
\* a knowledge panel or none
InitQuality ==
    /\ \E n \in 0..MaxOrganic, trusted \in TrustedLinks, other \in OtherLinks :
       \E links \in [1..n -> {trusted, other}] :
       \E knowledge \in {NoKnowledge, KnowledgePanel} :
          main = [pc |-> "scoring",
                  searchData |-> [organic |-> [i \in 1..n |->
                                                 [display_link |-> links[i]]],
                                  knowledge |-> knowledge],
                  data_quality_score |-> NoResult]
    /\ AgentNotStarted

\* buildPerceptionFromSearchData, line 82
CalculateDataQualityScoreCall ==
    /\ main.pc = "scoring"
    /\ main' = [main EXCEPT
                   !.pc = "scored",
                   !.data_quality_score = calculateDataQualityScore(main.searchData)]
    /\ AgentUnchanged

SpecQuality == InitQuality /\ [][CalculateDataQualityScoreCall]_vars

\* every collaborator call returns (or throws), and the agent keeps running
LiveSpec == Spec /\ WF_vars(Next)

-----------------------------------------------------------------------------
(* Claims *)

\* the positions inside one Perceive -> Reason -> Reflect pass
InPass == {"perceive", "select", "fetch", "pfinish", "reason", "rnext", "extract",
           "summary", "reflect"}

\* C1: whatever the collaborators do, provided each call returns, agentTick
\* reaches its terminal state after at most max_iterations passes: no more than
\* max_iterations passes are begun, the iteration counter changes only at the
\* end of a pass and then by exactly one, a pass that does not break out of
\* the loop increases it, and the terminal state is reached.
C1_Termination ==
    /\ [](passes <= max_iterations)
    /\ [][/\ (state'.iteration # state.iteration) =>
                (/\ state'.iteration = state.iteration + 1
                 /\ pc \in InPass
                 /\ pc' \notin InPass)
          /\ (pc \in InPass /\ pc' = "loop") =>
                (state'.iteration = state.iteration + 1)]_vars
    /\ <>(pc = "done")

\* C1, witness: a run that ends after max_iterations passes
C1_Witness == pc = "done" /\ passes = max_iterations

\* C2: at every selectStrategy call (perceive makes them for the category in
\* hand, before the retrieval call and in its error handler), the strategy
\* returned is not in the category's failed set, unless every catalog strategy
\* is in it and the fallback multi_source is returned.
C2_StrategyExclusion ==
    pc \in {"select", "fetch"} =>
        LET category == Categories[ci]
            failed == memory.failed_strategies_by_category[category]
            s == selectStrategy(memory, state, category)
        IN  s \notin failed \/ (StrategySet \subseteq failed /\ s = "multi_source")

\* C2, witness: a selection for a category with a failed strategy on record
C2_Witness ==
    /\ pc = "fetch"
    /\ memory.failed_strategies_by_category[Categories[ci]] # {}
    /\ strategy \notin memory.failed_strategies_by_category[Categories[ci]]

\* C3 (as claimed): when Reflection's adaptation set contains
\* alternative_category_approach, the failure history is cleared before the
\* next iteration: every strategy that was in a category's failed set is again
\* among the strategies selectStrategy may pick for that category.
C3_FailureHistoryCleared ==
    [][(pc = "reflect" /\ pc' = "loop"
        /\ "alternative_category_approach" \in state'.current_adaptations) =>
          \A c \in CategorySet :
             \A s \in memory.failed_strategies_by_category[c] :
                Includes(Available(memory'.failed_strategies_by_category[c]), s)]_vars

\* the adaptations that act on the query
QueryAdaptations == {"expand_search_terms", "try_local_sources"}

\* C4 (as claimed): when Reflection signalled continue with adaptation set A,
\* the Perception pass of the next iteration has sent a query carrying A's terms
\* by the time it hands over to Reasoning (stated for the runs that gathered
\* their evidence themselves, from a cache without a valid entry).
C4_AdaptationsReachQueries ==
    (pc = "reason" /\ everRetrievalOk
     /\ evaluation.kind = "evaluation" /\ evaluation.should_continue) =>
        \E q \in sent : q.terms = evaluation.adaptations \cap QueryAdaptations

\* C5 (as claimed): in a retry pass, the bundle Reasoning works on for a
\* category was not gathered with a strategy already recorded as failed for
\* that category (stated for the runs that gathered their evidence themselves,
\* from a cache without a valid entry).
C5_RetryUsesOtherStrategy ==
    (pc = "extract" /\ state.iteration > 0 /\ everRetrievalOk) =>
        perception.category_searches[Categories[ci]].strategy_used
            \notin memory.failed_strategies_by_category[Categories[ci]]

\* C6 (as claimed): in the terminal state the goals are met or the iteration
\* counter has reached max_iterations.
C6_OnlyGoalOrBudget ==
    pc = "done" => (state.goals_met \/ state.iteration >= state.max_iterations)

\* C6 (amended): in the terminal state the goals are met, or the iteration
\* counter has reached max_iterations, or the confidence is below
\* min_acceptable_confidence (Reflection found a retry not warranted).
C6_NaturalTermination ==
    pc = "done" =>
        \/ state.goals_met
        \/ state.iteration >= state.max_iterations
        \/ state.confidence < min_acceptable_confidence * Scale

\* C6, witness: a run that ended early without meeting its goals
C6_Witness ==
    /\ pc = "done"
    /\ ~state.goals_met
    /\ state.iteration < state.max_iterations
    /\ state.confidence > 0

\* an analysis without cost categories and with zero confidence
Degraded ==
    /\ reasoning.kind = "reasoning"
    /\ \A c \in CategorySet : reasoning.cost_categories[c] = NoResult
    /\ reasoning.total_confidence = 0
    /\ state.confidence = 0

\* C7 (as claimed): if every retrieval call of the run failed, the loop ends
\* with the iteration counter at max_iterations and a degraded analysis.
C7_AllRetrievalsFailEndsAtMax ==
    (pc = "done" /\ everRetrievalFail /\ ~everRetrievalOk) =>
        (state.iteration = state.max_iterations /\ Degraded)

\* C7 (amended): if retrieval was called and every call failed, the loop ends
\* after a single pass with the iteration counter at 0 (the confidence 0 is
\* below min_acceptable_confidence, so no retry) and a degraded analysis.
C7_AllRetrievalsFailEndsAtZero ==
    (pc = "done" /\ everRetrievalFail /\ ~everRetrievalOk) =>
        (state.iteration = 0 /\ passes = 1 /\ ~state.goals_met /\ Degraded)

\* C7, witness: a finished run whose retrieval calls all failed
C7_Witness ==
    pc = "done" /\ everRetrievalFail /\ ~everRetrievalOk /\ faults >= NumCategories

\* C8: evaluateGoals returns confidence_met = (confidence >= 75),
\* completeness_met = (completeness >= 0.8), goals_met = both, should_retry =
\* not goals_met and iteration < max_iterations and confidence >= 50, and
\* stores goals_met in the state; (80, 0.85) gives goals_met and no retry,
\* (55, 0.5) at iteration 1 gives a retry.
C8_GoalArithmetic ==
    pc = "evaluated" =>
        LET conf == state.confidence
            comp == state.completeness
        IN  /\ evaluation.confidence_met = (conf >= 75 * Scale)
            /\ evaluation.completeness_met = (comp >= 80 * NumCategories)
            /\ evaluation.goals_met =
                  (evaluation.confidence_met /\ evaluation.completeness_met)
            /\ evaluation.should_retry =
                  (~evaluation.goals_met /\ state.iteration < 3 /\ conf >= 50 * Scale)
            /\ state.goals_met = evaluation.goals_met
            /\ (conf = 80 * Scale /\ comp = 85 * NumCategories) =>
                  (evaluation.confidence_met /\ evaluation.completeness_met
                   /\ evaluation.goals_met /\ ~evaluation.should_retry)
            /\ (conf = 55 * Scale /\ comp = 50 * NumCategories /\ state.iteration = 1) =>
                  evaluation.should_retry

\* C8, witness: the retry-gating example, evaluated
C8_Witness ==
    /\ pc = "evaluated"
    /\ state.confidence = 55 * Scale
    /\ state.completeness = 50 * NumCategories
    /\ state.iteration = 1
    /\ evaluation.should_retry

\* the number of results of the analysis with confidence below 60
NumLow(rsn) ==
    Cardinality({c \in CategorySet : rsn.cost_categories[c] # NoResult
                                      /\ rsn.cost_categories[c] < 60 * 10})

\* C9: when Reflection signals continue, its adaptation set has
\* expand_search_terms iff more than 2 results of the current Reasoning stage
\* are below 60, and alternative_category_approach and try_local_sources iff at
\* least one is; so it is {}, those two, or all three.
C9_AdaptationsFromResults ==
    [][(pc = "reflect" /\ pc' = "loop") =>
          LET A == evaluation'.adaptations
              n == NumLow(reasoning)
          IN  /\ evaluation'.should_continue
              /\ state'.current_adaptations = A
              /\ ("expand_search_terms" \in A) <=> (n > 2)
              /\ ("alternative_category_approach" \in A) <=> (n >= 1)
              /\ ("try_local_sources" \in A) <=> (n >= 1)
              /\ A \in {{}, {"alternative_category_approach", "try_local_sources"},
                        {"expand_search_terms", "alternative_category_approach",
                         "try_local_sources"}}]_vars

\* C9, witness: a continue with all three adaptations after an analysis with
\* more than 2 low results
C9_Witness ==
    /\ pc = "loop"
    /\ evaluation.kind = "evaluation"
    /\ evaluation.should_continue
    /\ "expand_search_terms" \in evaluation.adaptations
    /\ NumLow(reasoning) > 2

\* C10: a retrieval failure for one category does not abort Perception: one
\* error tagged with the category is appended, the strategy whose query was
\* sent is recorded as a failure for the category with confidence 0, the
\* category gets no bundle, and the loop goes on to the next category (or to
\* the end of the stage after the last one).
C10_RetrievalFailureIsLocal ==
    [][(pc = "fetch" /\ everRetrievalFail' /\ faults' # faults) =>
          LET category == Categories[ci]
          IN  /\ errors'.n = errors.n + 1
              /\ errors'.last.phase = "perception"
              /\ errors'.last.category = category
              /\ query.strategy \in memory'.failed_strategies_by_category[category]
              /\ memory'.attempted_strategies.n = memory.attempted_strategies.n + 1
              /\ memory'.attempted_strategies.last =
                    [kind |-> "attempt", strategy |-> query.strategy,
                     category |-> category, success |-> FALSE, confidence |-> 0,
                     iteration |-> state.iteration]
              /\ memory'.successful_strategies_by_category =
                    memory.successful_strategies_by_category
              /\ categorySearchResults'[category] = NoBundle
              /\ state' = state
              /\ IF ci < NumCategories
                 THEN pc' = "select" /\ ci' = ci + 1
                 ELSE pc' = "pfinish"]_vars

\* C10, witness: Perception went on to the next category after a failure
C10_Witness ==
    /\ pc = "select"
    /\ ci > 1
    /\ errors.last.kind = "error"
    /\ errors.last.phase = "perception"
    /\ errors.last.category = Categories[ci - 1]
    /\ categorySearchResults[Categories[ci - 1]] = NoBundle

\* C11 (as claimed): every category-level error is recovered locally.  When
\* the retrieval call of Perception or the extraction call of Reasoning throws
\* for a category, the category is left out of the stage's result, the stage
\* goes on (the exception does not reach agentTick: no agent_tick error, the
\* iteration counter unchanged), and the strategy used for the category is in
\* the category's failed set afterwards.
C11_CategoryErrorsRecordFailure ==
    [][/\ (pc = "fetch" /\ faults' # faults) =>
             (/\ categorySearchResults'[Categories[ci]] = NoBundle
              /\ pc' \in {"select", "pfinish"}
              /\ errors'.last.phase = "perception"
              /\ state'.iteration = state.iteration
              /\ query.strategy
                    \in memory'.failed_strategies_by_category[Categories[ci]])
       /\ (pc = "extract" /\ faults' # faults) =>
             (/\ costCategories'[Categories[ci]] = NoResult
              /\ pc' \in {"rnext", "summary"}
              /\ errors'.last.phase = "reasoning"
              /\ state'.iteration = state.iteration
              /\ perception.category_searches[Categories[ci]].strategy_used
                    \in memory'.failed_strategies_by_category[Categories[ci]])]_vars

\* the number of categories that have a bundle in a perception
BundleCount(p) ==
    Cardinality({c \in CategorySet : p.category_searches[c].kind # None})

\* the agent state a pass works out from a bundle and the analysis made of it:
\* completeness from the bundle (perceive, lines 102-103), confidence from the
\* analysis (reason, line 219)
OutcomeOf(st, p, rsn) ==
    [st EXCEPT !.confidence = rsn.total_confidence,
               !.completeness = BundleCount(p) * 100]

\* C12 (as claimed): cache provenance does not change downstream processing.
\* Whether the bundle was freshly gathered or loaded from the cache, a pass
\* whose Reasoning completed ends with the confidence, completeness and
\* goals_met that follow from the bundle's contents and the extraction
\* results alone, and takes the same decision to retry or stop (and so the
\* same number of passes).
C12_CacheProvenanceNeutral ==
    [][(pc = "reflect" /\ reasoning.reasoning_model = "gpt-4o-mini") =>
          LET expected == OutcomeOf(state, perception, reasoning)
          IN  /\ state'.confidence = expected.confidence
              /\ state'.completeness = expected.completeness
              /\ state'.goals_met = evaluateGoals(expected).goals_met
              /\ (pc' = "loop") = reflect(expected, reasoning).should_continue]_vars

\* C13 (as claimed): after every Perception pass that returns normally,
\* completeness is the number of categories with a bundle in the current
\* perception over the number of configured categories.
C13_CompletenessMatchesBundle ==
    (pc = "reason" /\ perception.kind = "perception") =>
        state.completeness = BundleCount(perception) * 100

StageThrows ==
    /\ pc \in InPass
    /\ pc' \in {"loop", "finalize"}
    /\ pc # "reflect"

\* C15: an exception thrown inside a loop pass does not escape agentTick.  At
\* the step where it reaches the catch block, the last entry of the error log
\* is an agent_tick error naming the failed iteration (counted from 1), it is
\* the only agent_tick entry appended (the log grew by the stage's own entry
\* and this one), the iteration counter is increased by one, and the loop
\* goes back to its test, or to the end when the counter reached
\* max_iterations; the run does not end at that step.
C15_PassExceptionsAreCaught ==
    [][StageThrows =>
          (/\ errors'.last = [kind |-> "error", phase |-> "agent_tick",
                              iteration |-> state.iteration + 1, category |-> None]
           /\ errors'.n = errors.n + 2
           /\ state'.iteration = state.iteration + 1
           /\ [state' EXCEPT !.iteration = state.iteration] = state
           /\ pc' = IF state'.iteration >= max_iterations THEN "finalize" ELSE "loop"
           /\ memory' = memory
           /\ reasoning' = reasoning)]_vars

\* C15, witness: back at the loop test after a caught exception
C15_Witness ==
    /\ pc = "loop"
    /\ errors.last.kind = "error"
    /\ errors.last.phase = "agent_tick"
    /\ errors.last.iteration = state.iteration
    /\ state.iteration > 0

\* C16 (as claimed): when agentTick has returned, also after loop-level
\* errors, the context holds a reasoning result, and the orchestrator gets a
\* CityAnalysis from it.
C16_AlwaysAnAnalysis ==
    pc = "done" =>
        (/\ reasoning.kind = "reasoning"
         /\ contextToAnalysis(state, errors, perception, reasoning) # NoAnalysis)

\* C17: when the Reasoning stage as a whole throws after Perception produced
\* a bundle, the exception stays inside the stage: a reasoning error is
\* logged, the analysis installed has no cost category, total confidence 0,
\* remote-work score 0 and the error attached, the iteration counter is
\* unchanged and the loop goes on to Reflection.
C17_ReasoningFallback ==
    [][(pc = "summary" /\ faults' # faults) =>
          (/\ perception.kind = "perception"
           /\ pc' = "reflect"
           /\ reasoning'.kind = "reasoning"
           /\ \A c \in CategorySet : reasoning'.cost_categories[c] = NoResult
           /\ reasoning'.total_confidence = 0
           /\ reasoning'.remote_work_score = 0
           /\ reasoning'.has_error
           /\ errors'.n = errors.n + 1
           /\ errors'.last.phase = "reasoning"
           /\ errors'.last.category = None
           /\ state' = state)]_vars

\* C17, witness: Reflection about to run on the fallback analysis of a pass
\* whose extraction calls had returned results
C17_Witness ==
    /\ pc = "reflect"
    /\ reasoning.kind = "reasoning"
    /\ reasoning.reasoning_model = "error-fallback"
    /\ perception.kind = "perception"
    /\ BundleCount(perception) > 0

\* C18: in the terminal state, goals_met implies that the confidence is at
\* least confidence_target (75), the completeness at least
\* completeness_target (0.8) and the iteration counter below max_iterations;
\* so an agent that ends with the counter at max_iterations ends with
\* goals_met false.
C18_GoalsMetIsEarned ==
    pc = "done" =>
        (/\ state.goals_met =>
               (/\ state.confidence >= 75 * Scale
                /\ state.completeness >= 80 * NumCategories
                /\ state.iteration < state.max_iterations)
         /\ (state.iteration >= state.max_iterations) => ~state.goals_met)

\* C18, witness: an agent that ended with its goals met after a retry
C18_Witness ==
    /\ pc = "done"
    /\ state.goals_met
    /\ state.iteration > 0

\* C18, the other case: an agent that used up its iterations
C18_WitnessExhausted ==
    /\ pc = "done"
    /\ state.iteration = state.max_iterations
    /\ reasoning.kind = "reasoning"
    /\ ~state.goals_met

\* C19: first-iteration bias.  For a fresh agent (no failed and no successful
\* strategy on record) at iteration 0, selectStrategy returns multi_source,
\* for every category.
C19_FirstIterationBias ==
    (/\ pc = "selected"
     /\ state.iteration = 0
     /\ memory = InitMemory) =>
        strategy = "multi_source"

\* C19, witness: a selection made for a fresh agent at iteration 0
C19_Witness ==
    /\ pc = "selected"
    /\ state.iteration = 0
    /\ memory = InitMemory
    /\ ci = NumCategories
    /\ strategy = "multi_source"

\* the place of a strategy in the catalog
CatalogIndex(s) == CHOOSE i \in 1..Len(Catalog) : Catalog[i] = s

\* the strategies on record as successful for the category in hand and not
\* on record as failed for it
EligibleWinners ==
    memory.successful_strategies_by_category[Categories[ci]]
        \ memory.failed_strategies_by_category[Categories[ci]]

\* C20: historical winner precedence.  Whatever the memory and the iteration
\* number, when some strategy outside the category's failed set is in its
\* successful set, selectStrategy returns the first such strategy in catalog
\* order.
C20_HistoricalWinnerFirst ==
    (pc = "selected" /\ EligibleWinners # {}) =>
        (/\ strategy \in EligibleWinners
         /\ \A t \in EligibleWinners : CatalogIndex(strategy) <= CatalogIndex(t))

\* C20, witness: at iteration 0, with failures on record, a winner other than
\* multi_source is returned although multi_source is still available
C20_Witness ==
    /\ pc = "selected"
    /\ state.iteration = 0
    /\ memory.failed_strategies_by_category[Categories[ci]] # {}
    /\ "multi_source" \notin memory.failed_strategies_by_category[Categories[ci]]
    /\ Cardinality(EligibleWinners) > 1
    /\ strategy # "multi_source"

\* the catalog strategies not on record as failed for the category in hand
EligibleNow == StrategySet \ memory.failed_strategies_by_category[Categories[ci]]

\* the fixed priority order, as the claim gives it
C21_Order == <<"numbeo_focused", "reddit_local", "government_stats",
               "expatistan_focused", "expat_forums">>

\* C21: with no eligible historical winner and iteration >= 1, selectStrategy
\* returns the first eligible strategy of the order numbeo_focused,
\* reddit_local, government_stats, expatistan_focused, expat_forums, and when
\* none of these is eligible the first eligible strategy in catalog order;
\* when every catalog strategy is in the failed set it returns multi_source,
\* whatever the successful set and the iteration.
C21_PriorityOrderAndFallback ==
    pc = "selected" =>
        /\ (EligibleNow = {}) => (strategy = "multi_source")
        /\ (EligibleNow # {} /\ EligibleWinners = {} /\ state.iteration >= 1) =>
              IF \E i \in 1..Len(C21_Order) : C21_Order[i] \in EligibleNow
              THEN \E i \in 1..Len(C21_Order) :
                      /\ strategy = C21_Order[i]
                      /\ strategy \in EligibleNow
                      /\ \A j \in 1..(i - 1) : C21_Order[j] \notin EligibleNow
              ELSE /\ strategy \in EligibleNow
                   /\ \A t \in EligibleNow : CatalogIndex(strategy) <= CatalogIndex(t)

\* C21, witness: a retry selection that skips two failed entries of the order
C21_Witness ==
    /\ pc = "selected"
    /\ state.iteration >= 1
    /\ EligibleWinners = {}
    /\ {"numbeo_focused", "reddit_local"}
          \subseteq memory.failed_strategies_by_category[Categories[ci]]
    /\ "expatistan_focused" \in EligibleNow
    /\ strategy = "government_stats"

\* an agent that has, for one category, the given failed set, successful set
\* and iteration number, and nothing else on record
OnlyInputs(failed, successful, iteration, category) ==
    [mem |-> [InitMemory EXCEPT
                 !.failed_strategies_by_category[category] = failed,
                 !.successful_strategies_by_category[category] = successful],
     st |-> [InitState EXCEPT !.iteration = iteration]]

\* C22: the strategy selectStrategy returns is determined by the category,
\* its failed set, its successful set and the iteration number.  In every
\* reachable state and for every category, the selection made in that state
\* (with its error log, the other categories' history, the adaptations in
\* force, the attempted_strategies log, the confidence and completeness) is
\* the selection made by an agent that has only these inputs on record.
C22_SelectionDependsOnInputsOnly ==
    \A c \in CategorySet :
        LET only == OnlyInputs(memory.failed_strategies_by_category[c],
                               memory.successful_strategies_by_category[c],
                               state.iteration, c)
        IN  /\ selectStrategy(memory, state, c) = selectStrategy(only.mem, only.st, c)
            /\ (pc = "fetch" /\ c = Categories[ci]) =>
                  strategy = selectStrategy(only.mem, only.st, c)

\* C22, witness: a selection made while the rest of the agent state differs
\* from a fresh agent's: errors logged, adaptations in force, another
\* category with a different history
C22_Witness ==
    /\ pc = "fetch"
    /\ errors.n > 0
    /\ state.current_adaptations # {}
    /\ memory.attempted_strategies.n > 0
    /\ \E c \in CategorySet :
          /\ c # Categories[ci]
          /\ memory.failed_strategies_by_category[c]
                # memory.failed_strategies_by_category[Categories[ci]]

\* C23: for each category for which extraction returns a result, Reasoning
\* records the strategy named in the category's bundle as a success for the
\* category when the scaled confidence is at least 60, and as a failure
\* otherwise (60.0 itself is a success, 59.9 a failure), and logs the attempt
\* with that confidence; nothing is ever removed from a successful or failed
\* set, so the record is there when the next iteration's selection runs.
C23_ReasoningRecordsOutcome ==
    [][/\ (pc = "extract" /\ categoriesProcessed' = categoriesProcessed + 1) =>
             LET category == Categories[ci]
                 s == perception.category_searches[category].strategy_used
                 conf == costCategories'[category]
                 failed == memory.failed_strategies_by_category
                 successful == memory.successful_strategies_by_category
             IN  /\ conf # NoResult
                 /\ memory'.attempted_strategies.n = memory.attempted_strategies.n + 1
                 /\ memory'.attempted_strategies.last.strategy = s
                 /\ memory'.attempted_strategies.last.category = category
                 /\ memory'.attempted_strategies.last.confidence = conf
                 /\ memory'.attempted_strategies.last.success = (conf >= 60 * 10)
                 /\ IF conf >= 60 * 10
                    THEN /\ memory'.successful_strategies_by_category =
                               [successful EXCEPT ![category] = @ \cup {s}]
                         /\ memory'.failed_strategies_by_category = failed
                    ELSE /\ memory'.failed_strategies_by_category =
                               [failed EXCEPT ![category] = @ \cup {s}]
                         /\ memory'.successful_strategies_by_category = successful
       /\ IsSuccess(60 * 10) /\ ~IsSuccess(60 * 10 - 1)
       /\ \A c \in CategorySet :
             /\ memory.failed_strategies_by_category[c]
                   \subseteq memory'.failed_strategies_by_category[c]
             /\ memory.successful_strategies_by_category[c]
                   \subseteq memory'.successful_strategies_by_category[c]]_vars

\* C23, witness: the selection of a retry pass runs with both outcomes of the
\* previous Reasoning stage on record: a failure for the category in hand, a
\* success for another one
C23_Witness ==
    /\ pc = "select"
    /\ state.iteration > 0
    /\ reasoning.kind = "reasoning"
    /\ reasoning.cost_categories[Categories[ci]] # NoResult
    /\ reasoning.cost_categories[Categories[ci]] < 60 * 10
    /\ "multi_source" \in memory.failed_strategies_by_category[Categories[ci]]
    /\ \E c \in CategorySet :
          /\ reasoning.cost_categories[c] >= 60 * 10
          /\ "multi_source" \in memory.successful_strategies_by_category[c]

\* ---------------------------------------------------------------------------
\* C24: the confidence stored for a category is the extraction confidence
\* times the modifier recorded in the bundle (1.0 when none is recorded),
\* brought into [0,100]; every stored confidence and the average confidence
\* stay within [0,100], whatever the extraction confidence in [0,100] and the
\* catalog modifier (0.7 to 1.2).  Confidences are in tenths, the product of
\* a confidence in tenths and a modifier in tenths is in hundredths.
C24_Clamp(product100) ==
    IF product100 > 100 * 100 THEN 100 * 100
    ELSE IF product100 < 0 THEN 0 ELSE product100

C24_RecordedModifier(bundle) ==
    IF bundle.confidence_modifier = 0 THEN 10 ELSE bundle.confidence_modifier

C24_ScaledAndClamped ==
    [][/\ pc = "scaling" =>
            LET category == Categories[ci]
                bundle == perception.category_searches[category]
            IN  /\ costCategories'[category] * 10 =
                      C24_Clamp(costCategories[category]
                                    * C24_RecordedModifier(bundle))
                /\ \A c \in CategorySet :
                      costCategories'[c] # NoResult =>
                          costCategories'[c] \in 0..(100 * 10)
       /\ pc = "averaging" =>
            /\ state'.confidence \in 0..(100 * Scale)
            /\ state'.confidence * categoriesProcessed = totalConfidence * 60
      ]_vars

\* the cap has acted: a confidence above 84 under the modifier 1.2
C24_Witness ==
    /\ pc = "averaged"
    /\ perception.category_searches[Categories[ci]].confidence_modifier = 12
    /\ costCategories[Categories[ci]] = 100 * 10
    /\ state.confidence = 100 * Scale

\* ---------------------------------------------------------------------------
\* scenario X: the agent is done after a pass that found no usable cache
\* entry, whose retrieval calls all returned, whose extraction calls all
\* returned confidence 90, and in which no collaborator failed
C25_ScenarioX ==
    /\ pc = "done"
    /\ passes = 1
    /\ faults = 0
    /\ everRetrievalOk
    /\ ~everRetrievalFail
    /\ perception.kind = "perception"
    /\ reasoning.kind = "reasoning"
    /\ \A c \in CategorySet :
          /\ perception.category_searches[c].kind = "bundle"
          /\ reasoning.cost_categories[c] =
                ScaledConfidence(90, perception.category_searches[c])

\* C25 (as stated): scenario X ends with completeness 1.0, average confidence
\* 90, goals_met true and iteration 0, after exactly one pass.
C25_ScenarioXEndsAtNinety ==
    C25_ScenarioX =>
        /\ state.completeness = 100 * NumCategories
        /\ state.confidence = 90 * Scale
        /\ state.goals_met
        /\ state.iteration = 0
        /\ passes = 1

\* C25 (amended): scenario X ends with completeness 1.0, average confidence 99
\* (90 scaled by the 1.1 of multi_source, the strategy of iteration 0),
\* goals_met true and iteration 0, after exactly one pass.
C25_ScenarioXEndsAtNinetyNine ==
    C25_ScenarioX =>
        /\ state.completeness = 100 * NumCategories
        /\ state.confidence = 99 * Scale
        /\ state.goals_met
        /\ state.iteration = 0
        /\ passes = 1
        /\ \A c \in CategorySet :
              perception.category_searches[c].strategy_used = "multi_source"

C25_Witness ==
    /\ C25_ScenarioX
    /\ cache # NoCache
    /\ evaluation.kind = "evaluation"
    /\ ~evaluation.should_continue

\* ---------------------------------------------------------------------------
\* scenario Y: Reasoning of iteration 0 has finished normally; the extraction
\* calls returned 40 for exactly two categories and 85 for all the others
C26_ReturnedFor(c, returned) ==
    reasoning.cost_categories[c] =
        ScaledConfidence(returned, perception.category_searches[c])

C26_ScenarioY ==
    /\ state.iteration = 0
    /\ reasoning.kind = "reasoning"
    /\ reasoning.reasoning_model = "gpt-4o-mini"
    /\ Cardinality({c \in CategorySet : C26_ReturnedFor(c, 40)}) = 2
    /\ \A c \in CategorySet : C26_ReturnedFor(c, 40) \/ C26_ReturnedFor(c, 85)

C26_Adaptations == {"alternative_category_approach", "try_local_sources"}

\* the figures of the scenario with its five categories: two at 40 and three
\* at 85, each scaled by the modifier of the strategy of iteration 0
C26_FiveCategories ==
    LET b == Bundle(selectStrategy(InitMemory, InitState, Categories[1]))
        total == 2 * ScaledConfidence(40, b) + 3 * ScaledConfidence(85, b)
        average == AverageConfidence(total, 5)
        ev == evaluateGoals([InitState EXCEPT
                                !.confidence = average,
                                !.completeness = 100 * NumCategories])
    IN  /\ ~IsSuccess(ScaledConfidence(40, b))
        /\ IsSuccess(ScaledConfidence(85, b))
        /\ average < confidence_target * Scale
        /\ average >= min_acceptable_confidence * Scale
        /\ ~ev.goals_met
        /\ ev.should_retry
        /\ generateAdaptations(2) = C26_Adaptations

\* C26: in scenario Y the average confidence is below the target 75 and at
\* least the minimum 50, Reflection signals a retry, and its adaptation set
\* is exactly {alternative_category_approach, try_local_sources}:
\* expand_search_terms is left out, exactly two categories being
\* low-confidence.
C26_ScenarioYRetries ==
    [][(pc = "reflect" /\ C26_ScenarioY) =>
          /\ state.confidence < confidence_target * Scale
          /\ state.confidence >= min_acceptable_confidence * Scale
          /\ Cardinality(LowConfidenceCategories(reasoning.cost_categories)) = 2
          /\ pc' = "loop"
          /\ evaluation'.should_continue
          /\ evaluation'.adaptations = C26_Adaptations
          /\ state'.current_adaptations = C26_Adaptations
          /\ state'.iteration = 1
          /\ C26_FiveCategories
      ]_vars

C26_Witness ==
    /\ pc = "loop"
    /\ reasoning.kind = "reasoning"
    /\ Cardinality({c \in CategorySet : C26_ReturnedFor(c, 40)}) = 2
    /\ \A c \in CategorySet : C26_ReturnedFor(c, 40) \/ C26_ReturnedFor(c, 85)
    /\ state.iteration = 1
    /\ evaluation.kind = "evaluation"
    /\ evaluation.adaptations = C26_Adaptations

\* ---------------------------------------------------------------------------
\* the cities whose task returned a context that holds an analysis
C28_CompletedWithAnalysis ==
    {city \in Cities :
        /\ main.tasks[city] # Pending
        /\ main.tasks[city].context # NoContext
        /\ main.tasks[city].context.reasoning.kind # None}

\* C28: the failure of one city's task neither blocks nor corrupts another's.
\* A task that has not settled can still return whatever happened to the
\* others; the orchestrator goes on only when every task has settled; the
\* analyses it passes to the ranking stage are, one each and unaltered, those
\* of the cities whose task completed with an analysis; it exits without
\* ranking only when no task returned a context.
C28_FailuresAreLocal ==
    /\ (main.pc = "awaiting") =>
          \A city \in Cities :
             main.tasks[city] = Pending => ENABLED TaskReturns(city)
    /\ (main.pc \in {"ranking", "exit"}) => AllSettled
    /\ (main.pc = "ranking") =>
          /\ {main.cityAnalyses[i].city : i \in 1..Len(main.cityAnalyses)}
                = C28_CompletedWithAnalysis
          /\ Len(main.cityAnalyses) = Cardinality(C28_CompletedWithAnalysis)
          /\ \A i \in 1..Len(main.cityAnalyses) :
                LET context == main.tasks[main.cityAnalyses[i].city].context
                IN  /\ main.cityAnalyses[i].summary.reasoning = context.reasoning
                    /\ main.cityAnalyses[i].summary.perception = context.perception
                    /\ main.cityAnalyses[i].summary.confidence =
                          context.state.confidence
          /\ \A i, j \in 1..Len(main.cityAnalyses) :
                i < j => main.cityAnalyses[i].city < main.cityAnalyses[j].city
    /\ (main.pc = "exit") =>
          \A city \in Cities : main.tasks[city].context = NoContext

\* the ranking stage is entered with one task failed, one returned without an
\* analysis and one returned with an analysis
C28_Witness ==
    /\ main.pc = "ranking"
    /\ \E city \in Cities : main.tasks[city].context = NoContext
    /\ \E city \in Cities :
          /\ main.tasks[city].context # NoContext
          /\ main.tasks[city].context.reasoning.kind = None
    /\ C28_CompletedWithAnalysis # {}
    /\ Len(main.cityAnalyses) < NumCities - 1

\* ---------------------------------------------------------------------------
\* C29 (as claimed): cache keys are unique per city and country: the tasks of
\* two different (name, country) pairs never use the same cache file, that
\* is, getCacheFilePath maps distinct pairs to distinct files.
C29_CacheKeysUnique ==
    (main.pc = "resolved") =>
        \A i, j \in 1..Len(main.cities) :
           main.cities[i] # main.cities[j] => main.files[i] # main.files[j]

\* ---------------------------------------------------------------------------
\* the categories before position i of the configuration
C30_Before(i) == {Categories[k] : k \in 1..(i - 1)}

\* the collaborator calls in flight: a retrieval (its query is out), an
\* extraction, a summary
C30_CallsInFlight ==
    (IF query # NoQuery THEN 1 ELSE 0)
    + (IF pc = "extract" THEN 1 ELSE 0)
    + (IF pc = "summary" THEN 1 ELSE 0)

\* Perception works on category ci: the queries sent in the pass are those of
\* the categories up to it, in configuration order, and no later category
\* has a bundle
C30_PerceptionInOrder ==
    /\ ci \in 1..NumCategories
    /\ {q.category : q \in sent} =
          C30_Before(ci) \cup (IF pc = "select" THEN {} ELSE {Categories[ci]})
    /\ \A k \in ci..NumCategories :
          categorySearchResults[Categories[k]] = NoBundle
    /\ (query # NoQuery) => (pc = "fetch" /\ query.category = Categories[ci])

\* Reasoning works on category ci: no later category has a result
C30_ReasoningInOrder ==
    /\ ci \in 1..NumCategories
    /\ \A k \in ci..NumCategories : costCategories[Categories[k]] = NoResult
    /\ categoriesProcessed <= ci - 1

\* C30: within one city's task all work is sequential.  At most one
\* collaborator call (retrieval, extraction, summary) is in flight at any
\* time; Perception and Reasoning take the categories one at a time in
\* configuration order; in each pass Reasoning starts only after Perception
\* has finished, and Reflection only after Reasoning has finished.
C30_StrictlySequential ==
    [][/\ C30_CallsInFlight' <= 1
       /\ (pc' \in {"select", "fetch"}) => C30_PerceptionInOrder'
       /\ (pc' \in {"rnext", "extract"}) => C30_ReasoningInOrder'
       /\ (pc \in {"select", "fetch"} /\ pc' \in {"select", "fetch"}) =>
             ci' = IF pc' = "select" THEN ci + 1 ELSE ci
       /\ (pc \in {"rnext", "extract"} /\ pc' \in {"rnext", "extract"}) =>
             ci' = IF pc' = "rnext" THEN ci + 1 ELSE ci
       /\ (pc' = "pfinish") => (pc = "fetch" /\ ci = NumCategories)
       /\ (pc' = "summary") => (pc \in {"rnext", "extract"} /\ ci = NumCategories)
       /\ (pc' = "reason") =>
             /\ pc \in {"perceive", "pfinish"}
             /\ query' = NoQuery
             /\ perception'.kind = "perception"
             /\ (pc = "pfinish") =>
                   {q.category : q \in sent} = CategorySet
       /\ (pc' = "rnext" /\ pc \notin {"rnext", "extract"}) =>
             (pc = "reason" /\ ci' = 1)
       /\ (pc' = "select" /\ pc \notin {"select", "fetch"}) =>
             (pc = "perceive" /\ ci' = 1)
       /\ (pc' = "reflect") =>
             /\ pc = "summary"
             /\ reasoning'.kind = "reasoning"
             /\ C30_CallsInFlight' = 0
      ]_vars

\* the extraction of the last category is in flight, after a Perception pass
\* that queried every category, one of which failed
C30_Witness ==
    /\ pc = "extract"
    /\ ci = NumCategories
    /\ C30_CallsInFlight = 1
    /\ {q.category : q \in sent} = CategorySet
    /\ everRetrievalFail
    /\ categoriesProcessed = NumCategories - 2

\* ---------------------------------------------------------------------------
\* the counts the score is stated in
C31_OrganicCount == Len(main.searchData.organic)

C31_TrustedCount ==
    Cardinality({i \in 1..Len(main.searchData.organic) :
                    main.searchData.organic[i].display_link \in TrustedLinks})

C31_AtMost(a, cap) == IF a > cap THEN cap ELSE a

\* C31: the quality score is min(min(5 * organic results, 50) + (20 with a
\* knowledge panel, else 0) + min(10 * trusted-source results, 30), 100), so it
\* lies in [0,100] for every bundle; 12 organic results with a knowledge panel
\* and 4 trusted-source hits score exactly 100.
C31_QualityScore ==
    [][(main.pc = "scoring") =>
          /\ main'.data_quality_score =
                C31_AtMost(C31_AtMost(5 * C31_OrganicCount, 50)
                           + (IF main.searchData.knowledge = KnowledgePanel
                              THEN 20 ELSE 0)
                           + C31_AtMost(10 * C31_TrustedCount, 30), 100)
          /\ main'.data_quality_score \in 0..100
          /\ (/\ C31_OrganicCount = 12
              /\ main.searchData.knowledge = KnowledgePanel
              /\ C31_TrustedCount = 4) => main'.data_quality_score = 100
      ]_vars

\* the bundle of the example has been scored
C31_Witness ==
    /\ main.pc = "scored"
    /\ C31_OrganicCount = 12
    /\ C31_TrustedCount = 4
    /\ main.searchData.knowledge = KnowledgePanel
    /\ main.data_quality_score = 100

\* ---------------------------------------------------------------------------
\* the cache does not hold the perception in hand: its save failed
C32_SaveFailed ==
    /\ perception.kind = "perception"
    /\ perception.data_source = "fresh_serp_calls"
    /\ ~(cache.kind = "entry" /\ cache.perception = perception)

\* C32: caching is best-effort.  Whether or not the save of the bundle
\* succeeds, Perception completes normally, installs the freshly gathered
\* bundle, updates completeness and records no error; the pass then ends as
\* the bundle and the extraction results alone determine, the same with a
\* failed save as with a successful one.
C32_CacheSaveBestEffort ==
    [][/\ (pc = "pfinish") =>
             /\ pc' = "reason"
             /\ perception' = FreshPerception(categorySearchResults,
                                              successfulCategories, state)
             /\ state' = [state EXCEPT
                             !.completeness = successfulCategories * 100]
             /\ errors' = errors
             /\ memory' = memory
             /\ cache' \in {cache, CacheEntry(TRUE, perception')}
       /\ (/\ pc = "reflect"
           /\ perception.kind = "perception"
           /\ perception.data_source = "fresh_serp_calls"
           /\ reasoning.reasoning_model = "gpt-4o-mini") =>
             LET expected == OutcomeOf(state, perception, reasoning)
             IN  /\ state.confidence = expected.confidence
                 /\ state.completeness = expected.completeness
                 /\ state'.goals_met = evaluateGoals(expected).goals_met
                 /\ (pc' = "loop") = reflect(expected, reasoning).should_continue
      ]_vars

\* Reflection has ended a pass whose save failed, with no error recorded
C32_Witness ==
    /\ pc \in {"loop", "finalize"}
    /\ evaluation.kind = "evaluation"
    /\ C32_SaveFailed
    /\ reasoning.kind = "reasoning"
    /\ reasoning.reasoning_model = "gpt-4o-mini"
    /\ state.completeness = BundleCount(perception) * 100
    /\ errors.n = 0
    /\ faults = 1
    /\ passes = 1

\* ---------------------------------------------------------------------------
\* the strategies on record both as successful and as failed for the category
C33_Overlap ==
    memory.successful_strategies_by_category[Categories[ci]]
        \cap memory.failed_strategies_by_category[Categories[ci]]

\* C33 (as stated): a strategy that succeeded once and later failed stays in
\* the prefer-successful check.  When every strategy on record as successful
\* for the category is also on record as failed, and some strategy is still
\* eligible, selectStrategy returns one of them as the historical winner.
C33_OverlapStillWinner ==
    (/\ pc = "selected"
     /\ C33_Overlap # {}
     /\ C33_Overlap = memory.successful_strategies_by_category[Categories[ci]]
     /\ EligibleNow # {}) => strategy \in C33_Overlap

\* C33 (amended): the later failure takes the strategy out of the
\* prefer-successful check.  selectStrategy returns what it would return had
\* the strategy never succeeded, and returns the strategy itself only when it
\* is multi_source, by the all-failed fallback or the first-iteration rule.
C33_OverlapIsExcluded ==
    (pc = "selected") =>
        \A s \in C33_Overlap :
           /\ strategy =
                 selectStrategy(
                     [memory EXCEPT
                         !.successful_strategies_by_category[Categories[ci]] =
                             @ \ {s}],
                     state, Categories[ci])
           /\ (strategy = s) =>
                 /\ s = "multi_source"
                 /\ EligibleWinners = {}
                 /\ (EligibleNow = {} \/ state.iteration = 0)

\* after iteration 0, with the only successful strategy failed and others
\* eligible, another strategy has been returned
C33_Witness ==
    /\ pc = "selected"
    /\ state.iteration > 0
    /\ C33_Overlap # {}
    /\ C33_Overlap = memory.successful_strategies_by_category[Categories[ci]]
    /\ EligibleNow # {}
    /\ strategy \notin C33_Overlap
    /\ strategy \in EligibleNow

\* ---------------------------------------------------------------------------
\* C34: in every reachable state 0 <= iteration <= max_iterations (3); the
\* counter never decreases and changes only by +1; no Perception, Reasoning
\* or Reflection step is started, or in progress, while iteration =
\* max_iterations.
C34_IterationBounds ==
    /\ [](/\ state.iteration \in 0..max_iterations
          /\ state.max_iterations = 3
          /\ (pc \in InPass) => state.iteration < state.max_iterations)
    /\ [][/\ state'.iteration \in {state.iteration, state.iteration + 1}
          /\ state'.max_iterations = state.max_iterations
          /\ (pc \in InPass /\ pc' \in InPass) => state'.iteration = state.iteration
         ]_vars

\* the counter has reached max_iterations after three passes, one of them
\* ended by an exception
C34_Witness ==
    /\ pc = "done"
    /\ state.iteration = state.max_iterations
    /\ passes = max_iterations
    /\ errors.n > 0
    /\ evaluation.kind = "evaluation"

\* ---------------------------------------------------------------------------
\* the cache holds a valid entry with a bundle: a save has succeeded
C35_Saved ==
    /\ cache.kind = "entry"
    /\ cache.fresh
    /\ cache.perception.kind = "perception"

C36_ConfidenceMatchesAnalysis ==
    (pc = "reflect") =>
        (/\ reasoning.kind = "reasoning"
         /\ state.confidence = reasoning.total_confidence)

\* ---------------------------------------------------------------------------
\* C37: when the retrieval call of a category fails, the strategy recorded as
\* failed is the one whose query was sent.  Between the selection and the
\* handler nothing changes the memory or the iteration number, so the second
\* selectStrategy call returns the strategy chosen before the call.
C37_FailedStrategyIsTheOneSent ==
    [][/\ (pc = "select") =>
             /\ memory' = memory
             /\ state' = state
             /\ query'.strategy = strategy'
             /\ query'.category = Categories[ci]
       /\ (pc = "fetch" /\ everRetrievalFail' /\ faults' # faults) =>
             LET category == Categories[ci]
                 attempt == memory'.attempted_strategies.last
             IN  /\ query.category = category
                 /\ attempt.strategy = query.strategy
                 /\ attempt.strategy = strategy
                 /\ attempt.category = category
                 /\ ~attempt.success
                 /\ attempt.iteration = state.iteration
                 /\ memory'.failed_strategies_by_category[category] =
                       memory.failed_strategies_by_category[category]
                           \cup {query.strategy}
                 /\ \A c \in CategorySet \ {category} :
                       memory'.failed_strategies_by_category[c] =
                           memory.failed_strategies_by_category[c]
                 /\ memory'.successful_strategies_by_category =
                       memory.successful_strategies_by_category
      ]_vars

\* after iteration 0, a retrieval with a strategy other than multi_source has
\* failed and is on record under that strategy
C37_Witness ==
    /\ pc \in {"select", "pfinish"}
    /\ state.iteration > 0
    /\ strategy \notin {None, "multi_source"}
    /\ memory.attempted_strategies.last.kind = "attempt"
    /\ memory.attempted_strategies.last.strategy = strategy
    /\ ~memory.attempted_strategies.last.success
    /\ memory.attempted_strategies.last.iteration = state.iteration
    /\ errors.last.kind = "error"
    /\ errors.last.phase = "perception"
    /\ errors.last.category = memory.attempted_strategies.last.category

\* ---------------------------------------------------------------------------
\* C38: the adaptation set in force changes only when a Reflection completes.
\* No adaptation is applied to the queries of iteration 0; every query carries
\* the terms of the set the most recent completed Reflection decided; and the
\* loop-level error handler changes the error log and the iteration counter
\* and leaves the memory and the adaptations as they are.
C38_QueryTerms == {"expand_search_terms", "try_local_sources"}

C38_InForce ==
    IF evaluation.kind = None THEN {} ELSE evaluation.adaptations

C38_AdaptationsOnlyFromReflection ==
    /\ [](/\ state.current_adaptations = C38_InForce
          /\ (state.iteration = 0 /\ pc \notin {"finalize", "done"}) =>
                 /\ state.current_adaptations = {}
                 /\ \A q \in sent : q.terms = {}
          /\ (query.kind = "query") =>
                 query.terms = C38_InForce \cap C38_QueryTerms)
    /\ [][/\ (state'.current_adaptations # state.current_adaptations) =>
                 /\ pc = "reflect"
                 /\ evaluation'.kind = "evaluation"
                 /\ state'.current_adaptations = evaluation'.adaptations
          /\ (errors'.last # errors.last /\ errors'.last.phase = "agent_tick") =>
                 /\ memory' = memory
                 /\ state' = [state EXCEPT !.iteration = @ + 1]
                 /\ evaluation' = evaluation
                 /\ errors'.n > errors.n
                 /\ perception' = perception
                 /\ reasoning' = reasoning
                 /\ cache' = cache
         ]_vars

\* a pass after iteration 0 sends a query with the extra terms the last
\* Reflection decided
C38_Witness ==
    /\ pc = "fetch"
    /\ state.iteration > 0
    /\ evaluation.kind = "evaluation"
    /\ evaluation.should_continue
    /\ query.terms # {}
    /\ query.terms = evaluation.adaptations \cap C38_QueryTerms

====
